---- MODULE Spec2Model ----
(***************************************************************************)
(* Two RpcSocket endpoints (lib/rpc_socket.ts) joined by a FIFO duplex     *)
(* transport.  Each endpoint owns a few application objects; the           *)
(* application on either side may export them, call the peer, free         *)
(* proxies and objects, end or destroy its socket; the transport may      *)
(* raise 'error', 'end', 'close'.                                          *)
(***************************************************************************)
EXTENDS Integers, Sequences, FiniteSets, TLC

VARIABLES
    knownStubs,     \* [E -> [object -> oid]]      this._knownStubs (WeakMap obj -> RpcStub)
    knownStubIds,   \* [E -> [oid -> object]]      this._knownStubIds
    knownProxies,   \* [E -> [oid -> instance]]    this._knownProxies
    pendingCalls,   \* [E -> SUBSET Nat]           keys of this._pendingCalls
    inCall,         \* [E -> BOOLEAN]              this._inCall
    newObjects,     \* [E -> Seq(frame)]           this._newObjects
    callId,         \* [E -> Nat]                  this._callId
    ended,          \* [E -> BOOLEAN]              this._ended
    stubCnt,        \* [E -> Nat]                  this._stubCnt
    proxies,        \* [E -> Seq(oid)]             the RpcProxy objects constructed: instance i carries $rpcId proxies[e][i]
    props,          \* [E -> [object -> value]]    the 'value' property of each application object
    promise,        \* [E -> Seq(record)]          the promise returned by call number i-1; touched: a proxy
                    \*                              argument was stale at the call or freed while it was pending;
                    \*                              registered: the target was in the proxy registry at the call;
                    \*                              raced: $free was invoked on a proxy while it was pending
    serving,        \* [E -> SUBSET record]        stubbed methods invoked and not yet completed
    wire,           \* [E -> Seq(frame)]           frames written by e, not yet delivered to the peer
    log,            \* [E -> Seq(frame)]           every frame e handed to this._socket.write
    nFrees,         \* [E -> Nat]                  $free invocations made by the application
    freedObjs,      \* [E -> SUBSET oid]           oids whose object's $free has run
    prevFreed,      \* [E -> SUBSET object]        objects whose own, earlier $free has run
    freedProxies,   \* [E -> SUBSET Nat]           proxy instances whose $free has run
    socket          \* [E -> {"open", "ended", "destroyed"}]  this._socket: writable, end() called, destroyed

vars == <<knownStubs, knownStubIds, knownProxies, pendingCalls, inCall, newObjects,
          callId, ended, socket, stubCnt, proxies, props, promise, serving, wire, log,
          nFrees, freedObjs, prevFreed, freedProxies>>

-----------------------------------------------------------------------------
(* Bounds of the model *)

\* application objects owned by each endpoint
NumObjs == 2
\* of these, the objects the application of Spec works with
MaxSpecObjs == 1
\* call() invocations that allocate a callId, over both endpoints
MaxCalls == 1
\* $free invocations (on proxies and on stubbed objects), over both endpoints
MaxFrees == 1
\* endpoints whose transport closes
MaxCloses == 1
\* call() invocations of the client in SpecReuse
MaxReuseCalls == 4
\* call() invocations of the client in SpecCallback
MaxCallbackCalls == 2
MaxAccessCalls == 2
MaxAccessFrees == 1
MaxMarshalCalls == 2
MaxReplyCalls == 2
MaxReplyFrames == 3
MaxInvalidCalls == 2
MaxFreeFrames == 2
MaxRefrees == 2
MaxRefreeCalls == 2
MaxShutdownCalls == 2
MaxStuckCalls == 2

-----------------------------------------------------------------------------
(* Endpoints, objects, object identifiers *)

E == {1, 2}

Peer(e) == 3 - e

\* the stubbable application objects living on endpoint e
Objects(e) == {10 * e + k : k \in 1..NumObjs}

\* the first n of them
SomeObjects(e, n) == {o \in Objects(e) : o - 10 * e <= n}

\* an application object that has no $rpcMethods
PlainObject(e) == 10 * e
\* the object has no $rpcMethods
IsPlainObject(o) == \E e \in E : o = PlainObject(e)

\* MyObject.prototype.$rpcMethods of the tests, merged into one class
RpcMethods == <<"echo", "getObject", "fail", "get value">>

\* Faulty variant of MkOid: the counter alone, without the socket's prefix
MkOidNoSocketId(e, cnt) == <<0, cnt>>

\* rpcId = this._socketId + cnt : the socket's unique prefix, then the counter
MkOid(e, cnt) == <<e, cnt>>

NoOid == <<0, 0>>

EmptyMap == [x \in {} |-> 0]

MapRemove(f, k) == [x \in (DOMAIN f) \ {k} |-> f[x]]

SeqRange(s) == {s[i] : i \in 1..Len(s)}

-----------------------------------------------------------------------------
(* Values: what the application passes and receives, and their wire form *)

Prim(v) == [t |-> "prim", v |-> v]
Undefined == [t |-> "undef"]
PlainRecord == [t |-> "rec", v |-> 3]
ObjV(o) == [t |-> "obj", o |-> o]
ProxyV(oid, inst) == [t |-> "proxy", oid |-> oid, inst |-> inst]
Arr(s) == [t |-> "arr", elems |-> s]
\* {$rpcId: oid}
OidRef(oid) == [t |-> "oidref", oid |-> oid]

(* Errors *)
NoError == [name |-> "none"]
MkError(name, message, code, objectId) ==
    [name |-> name, message |-> message, code |-> code, objectId |-> objectId]
SocketClosedError == MkError("Error", "Socket closed", "ERR_SOCKET_CLOSED", NoOid)
\* Faulty variant of InvalidObjectError: the code is not set
InvalidObjectErrorNoCode(oid) == MkError("Error", "Invalid object", "undefined", oid)

InvalidObjectError(oid) == MkError("Error", "Invalid object", "ENXIO", oid)
TypeError(message) == MkError("TypeError", message, "undefined", NoOid)

(* Frames *)
NewObjectMessage(oid) == [control |-> "new-object", obj |-> oid, methods |-> RpcMethods]
CallMessage(id, oid, method, params) ==
    [control |-> "call", id |-> id, obj |-> oid, method |-> method, params |-> params]
FreeMessage(oid) == [control |-> "free", id |-> oid]
\* a reply frame; error = "" and message, code = "undefined" stand for absent fields
ReplyMessage(id, reply) ==
    [control |-> "reply", id |-> id, error |-> "", message |-> "undefined",
     code |-> "undefined", reply |-> reply]

\* the reply written by the catch block of _handleCall
ErrorReplyMessage(id, error) ==
    IF error.name = "SyntaxError"
    THEN [control |-> "reply", id |-> id, error |-> "SyntaxError", message |-> error.message,
          code |-> "undefined", reply |-> Undefined]
    ELSE IF error.name = "TypeError"
    THEN [control |-> "reply", id |-> id, error |-> "TypeError", message |-> error.message,
          code |-> "undefined", reply |-> Undefined]
    ELSE IF error.message # ""
    THEN [control |-> "reply", id |-> id, error |-> error.message, message |-> "undefined",
          code |-> error.code, reply |-> Undefined]
    ELSE [control |-> "reply", id |-> id, error |-> error.name, message |-> "undefined",
          code |-> "undefined", reply |-> Undefined]

\* the error _handleReply builds from a reply frame that carries an error; a frame
\* without a message field gives new TypeError(undefined), whose message is empty
ReplyError(msg) ==
    LET message == IF msg.message = "undefined" THEN "" ELSE msg.message
        err == IF msg.error = "SyntaxError" THEN MkError("SyntaxError", message, "undefined", NoOid)
               ELSE IF msg.error = "TypeError" THEN MkError("TypeError", message, "undefined", NoOid)
               ELSE MkError("Error", msg.error, "undefined", NoOid)
    IN IF msg.code # "undefined" THEN [err EXCEPT !.code = msg.code] ELSE err

\* what the stubbed methods of the tests throw (testError)
ThrownErrors ==
    { MkError("TypeError", "foo", "undefined", NoOid),
      MkError("Error", "my error message", "E_FOO_BAR_ERROR", NoOid),
      MkError("SyntaxError", "Unexpected token", "undefined", NoOid) }

\* `throw undefined`, or a promise rejected without a reason: the value has no
\* fields, so the catch block of _handleCall throws when it reads error.name
ThrownUndefined == MkError("<undefined>", "<undefined>", "undefined", NoOid)

\* what a stubbed method can throw: the errors of the tests, an error of a built-in
\* class that carries a code (as the TypeErrors of the Node.js runtime do), and
\* a value that is not an object
ThrownValues ==
    ThrownErrors \cup { MkError("TypeError", "bad argument", "ERR_INVALID_ARG_TYPE", NoOid),
                        ThrownUndefined }

\* method.substr(0,4) and method.substr(4) over the method names of the model
MethodPrefix(method) ==
    CASE method \in {"get value", "get secret"} -> "get "
      [] method \in {"set value", "set secret"} -> "set "
      [] OTHER -> ""
MethodRest(method) ==
    CASE method \in {"get value", "set value"} -> "value"
      [] method \in {"get secret", "set secret"} -> "secret"
      [] OTHER -> method

\* Faulty variant of _validateCall: every method name is accepted
ValidateCallAny(method) == NoError

\* RpcStub._validateCall(method) against the stub's method snapshot
ValidateCall(method) ==
    IF method \in SeqRange(RpcMethods) THEN NoError ELSE TypeError("Invalid method " \o method)

-----------------------------------------------------------------------------
(* The part of an endpoint that marshalling reads and writes.  out is the   *)
(* sequence of frames handed to the transport while the operation runs.    *)

LocalState(e) ==
    [knownStubs |-> knownStubs[e], knownStubIds |-> knownStubIds[e],
     stubCnt |-> stubCnt[e], newObjects |-> newObjects[e],
     inCall |-> inCall[e], out |-> <<>>]

SendMetadata(st, oid) ==
    IF st.inCall
    THEN [st EXCEPT !.newObjects = Append(@, NewObjectMessage(oid))]
    ELSE [st EXCEPT !.out = Append(@, NewObjectMessage(oid))]

\* Faulty variant of addStub: the identity map is not consulted, every export
\* allocates a fresh oid
AddStubOpFresh(e, st, o) ==
    IF IsPlainObject(o)
    THEN [st |-> st, val |-> NoOid, err |-> TypeError("Invalid stub object")]
    ELSE LET rpcId == MkOid(e, st.stubCnt) IN
         [st |-> SendMetadata([st EXCEPT !.stubCnt = @ + 1,
                                         !.knownStubs = (o :> rpcId) @@ @,
                                         !.knownStubIds = @ @@ (rpcId :> o)], rpcId),
          val |-> rpcId, err |-> NoError]

\* Faulty variant of addStub: a first export is announced but not entered in
\* the stubs-by-oid map
AddStubOpNoInstall(e, st, o) ==
    IF o \in DOMAIN st.knownStubs
    THEN LET oid == st.knownStubs[o] IN
         IF oid \notin DOMAIN st.knownStubIds
         THEN [st |-> SendMetadata([st EXCEPT !.knownStubIds = @ @@ (oid :> o)], oid),
               val |-> oid, err |-> NoError]
         ELSE [st |-> st, val |-> oid, err |-> NoError]
    ELSE IF IsPlainObject(o)
    THEN [st |-> st, val |-> NoOid, err |-> TypeError("Invalid stub object")]
    ELSE LET rpcId == MkOid(e, st.stubCnt) IN
         [st |-> SendMetadata([st EXCEPT !.stubCnt = @ + 1,
                                         !.knownStubs = @ @@ (o :> rpcId)], rpcId),
          val |-> rpcId, err |-> NoError]

\* Faulty variant of addStub: a live stub is announced again
AddStubOpAlwaysAnnounce(e, st, o) ==
    IF o \in DOMAIN st.knownStubs
    THEN LET oid == st.knownStubs[o] IN
         [st |-> SendMetadata([st EXCEPT !.knownStubIds = (oid :> o) @@ @], oid),
          val |-> oid, err |-> NoError]
    ELSE IF IsPlainObject(o)
    THEN [st |-> st, val |-> NoOid, err |-> TypeError("Invalid stub object")]
    ELSE LET rpcId == MkOid(e, st.stubCnt) IN
         [st |-> SendMetadata([st EXCEPT !.stubCnt = @ + 1,
                                         !.knownStubs = @ @@ (o :> rpcId),
                                         !.knownStubIds = @ @@ (rpcId :> o)], rpcId),
          val |-> rpcId, err |-> NoError]

\* Faulty variant of addStub: the oid of a new stub is numbered by the count of
\* live stubs, so that the number of a freed stub is handed out again
AddStubOpLiveCount(e, st, o) ==
    IF o \in DOMAIN st.knownStubs
    THEN LET oid == st.knownStubs[o] IN
         IF oid \notin DOMAIN st.knownStubIds
         THEN [st |-> SendMetadata([st EXCEPT !.knownStubIds = @ @@ (oid :> o)], oid),
               val |-> oid, err |-> NoError]
         ELSE [st |-> st, val |-> oid, err |-> NoError]
    ELSE IF IsPlainObject(o)
    THEN [st |-> st, val |-> NoOid, err |-> TypeError("Invalid stub object")]
    ELSE LET rpcId == MkOid(e, Cardinality(DOMAIN st.knownStubIds)) IN
         [st |-> SendMetadata([st EXCEPT !.stubCnt = @ + 1,
                                         !.knownStubs = @ @@ (o :> rpcId),
                                         !.knownStubIds = (rpcId :> o) @@ @], rpcId),
          val |-> rpcId, err |-> NoError]

\* addStub(obj) on local state st: the new state, the returned oid, the error thrown
AddStubOp(e, st, o) ==
    IF o \in DOMAIN st.knownStubs
    THEN LET oid == st.knownStubs[o] IN
         IF oid \notin DOMAIN st.knownStubIds
         THEN [st |-> SendMetadata([st EXCEPT !.knownStubIds = @ @@ (oid :> o)], oid),
               val |-> oid, err |-> NoError]
         ELSE [st |-> st, val |-> oid, err |-> NoError]
    ELSE IF IsPlainObject(o)
    THEN [st |-> st, val |-> NoOid, err |-> TypeError("Invalid stub object")]
    ELSE LET rpcId == MkOid(e, st.stubCnt) IN
         [st |-> SendMetadata([st EXCEPT !.stubCnt = @ + 1,
                                         !.knownStubs = @ @@ (o :> rpcId),
                                         !.knownStubIds = @ @@ (rpcId :> o)], rpcId),
          val |-> rpcId, err |-> NoError]

RECURSIVE MarshalArgument(_, _, _, _)
RECURSIVE MarshalList(_, _, _, _)

\* Faulty variant of _marshalArgument: the proxy registry is not consulted
MarshalArgumentAnyOid(e, kp, st, arg) ==
    CASE arg.t \in {"prim", "undef"} -> [st |-> st, val |-> arg, err |-> NoError]
      [] arg.t = "arr" ->
            LET r == MarshalList(e, kp, st, arg.elems) IN
            [st |-> r.st, val |-> Arr(r.val), err |-> r.err]
      [] arg.t \in {"proxy", "oidref"} ->
            [st |-> st, val |-> OidRef(arg.oid), err |-> NoError]
      [] arg.t = "obj" /\ ~IsPlainObject(arg.o) ->
            LET r == AddStubOp(e, st, arg.o) IN
            [st |-> r.st, val |-> OidRef(r.val), err |-> NoError]
      [] OTHER -> [st |-> st, val |-> arg, err |-> NoError]

\* _marshalArgument(arg); kp is the set of oids in this._knownProxies
MarshalArgument(e, kp, st, arg) ==
    CASE arg.t \in {"prim", "undef"} -> [st |-> st, val |-> arg, err |-> NoError]
      [] arg.t = "arr" ->
            LET r == MarshalList(e, kp, st, arg.elems) IN
            [st |-> r.st, val |-> Arr(r.val), err |-> r.err]
      [] arg.t \in {"proxy", "oidref"} ->
            IF arg.oid \in kp
            THEN [st |-> st, val |-> OidRef(arg.oid), err |-> NoError]
            ELSE [st |-> st, val |-> Undefined, err |-> InvalidObjectError(arg.oid)]
      [] arg.t = "obj" /\ ~IsPlainObject(arg.o) ->
            LET r == AddStubOp(e, st, arg.o) IN
            [st |-> r.st, val |-> OidRef(r.val), err |-> NoError]
      [] OTHER -> [st |-> st, val |-> arg, err |-> NoError]

\* args.map(this._marshalArgument.bind(this)): left to right, aborted by the first throw
MarshalList(e, kp, st, args) ==
    IF args = <<>>
    THEN [st |-> st, val |-> <<>>, err |-> NoError]
    ELSE LET h == MarshalArgument(e, kp, st, Head(args)) IN
         IF h.err # NoError
         THEN [st |-> h.st, val |-> <<>>, err |-> h.err]
         ELSE LET r == MarshalList(e, kp, h.st, Tail(args)) IN
              [st |-> r.st, val |-> <<h.val>> \o r.val, err |-> r.err]

RECURSIVE UnmarshalArgument(_, _, _)
RECURSIVE UnmarshalList(_, _, _)

\* Faulty variant of _unmarshalArgument: an oid in neither map yields undefined
UnmarshalArgumentLenient(ksi, kp, arg) ==
    CASE arg.t \in {"prim", "undef"} -> [val |-> arg, err |-> NoError]
      [] arg.t = "arr" ->
            LET r == UnmarshalList(ksi, kp, arg.elems) IN
            [val |-> Arr(r.val), err |-> r.err]
      [] arg.t = "oidref" ->
            IF arg.oid \in DOMAIN ksi
            THEN [val |-> ObjV(ksi[arg.oid]), err |-> NoError]
            ELSE IF arg.oid \in DOMAIN kp
            THEN [val |-> ProxyV(arg.oid, kp[arg.oid]), err |-> NoError]
            ELSE [val |-> Undefined, err |-> NoError]
      [] OTHER -> [val |-> arg, err |-> NoError]

\* _unmarshalArgument(arg) against the stub-id map ksi and the proxy map kp
UnmarshalArgument(ksi, kp, arg) ==
    CASE arg.t \in {"prim", "undef"} -> [val |-> arg, err |-> NoError]
      [] arg.t = "arr" ->
            LET r == UnmarshalList(ksi, kp, arg.elems) IN
            [val |-> Arr(r.val), err |-> r.err]
      [] arg.t = "oidref" ->
            IF arg.oid \in DOMAIN ksi
            THEN [val |-> ObjV(ksi[arg.oid]), err |-> NoError]
            ELSE IF arg.oid \in DOMAIN kp
            THEN [val |-> ProxyV(arg.oid, kp[arg.oid]), err |-> NoError]
            ELSE [val |-> Undefined, err |-> TypeError("Invalid object")]
      [] OTHER -> [val |-> arg, err |-> NoError]

UnmarshalList(ksi, kp, args) ==
    IF args = <<>>
    THEN [val |-> <<>>, err |-> NoError]
    ELSE LET h == UnmarshalArgument(ksi, kp, Head(args)) IN
         IF h.err # NoError
         THEN [val |-> <<>>, err |-> h.err]
         ELSE LET r == UnmarshalList(ksi, kp, Tail(args)) IN
              [val |-> <<h.val>> \o r.val, err |-> r.err]

\* how much of each budget the run has used
CallsMade == callId[1] + callId[2]
FreesMade == nFrees[1] + nFrees[2]
Closes == Cardinality({e \in E : ended[e]})

-----------------------------------------------------------------------------
(* Initial state: both sockets constructed, nothing exported *)

Init ==
    /\ knownStubs = [e \in E |-> EmptyMap]
    /\ knownStubIds = [e \in E |-> EmptyMap]
    /\ knownProxies = [e \in E |-> EmptyMap]
    /\ pendingCalls = [e \in E |-> {}]
    /\ inCall = [e \in E |-> FALSE]
    /\ newObjects = [e \in E |-> <<>>]
    /\ callId = [e \in E |-> 0]
    /\ ended = [e \in E |-> FALSE]
    /\ stubCnt = [e \in E |-> 0]
    /\ proxies = [e \in E |-> <<>>]
    /\ props = [e \in E |-> [o \in Objects(e) |-> Prim(1)]]
    /\ promise = [e \in E |-> <<>>]
    /\ serving = [e \in E |-> {}]
    /\ wire = [e \in E |-> <<>>]
    /\ log = [e \in E |-> <<>>]
    /\ nFrees = [e \in E |-> 0]
    /\ freedObjs = [e \in E |-> {}]
    /\ prevFreed = [e \in E |-> {}]
    /\ freedProxies = [e \in E |-> {}]
    /\ socket = [e \in E |-> "open"]

-----------------------------------------------------------------------------
(* Shared pieces of the actions *)

\* what destroy() leaves of the frames not yet delivered: the frame handed to _write
\* reaches the peer on the next turn of the event loop, the frames behind it wait in
\* the stream's buffer and are discarded
Undiscarded(frames) == IF frames = <<>> THEN <<>> ELSE <<Head(frames)>>

\* this._socket.write(frame) for each frame: the stream carries a frame only while it is
\* writable; a write after end() destroys the stream at once (write after end), a write
\* on a destroyed stream is refused
Written(e, frames) ==
    /\ log' = [log EXCEPT ![e] = @ \o frames]
    /\ IF frames # <<>> /\ socket[e] = "ended"
       THEN /\ socket' = [socket EXCEPT ![e] = "destroyed"]
            /\ wire' = [wire EXCEPT ![e] = Undiscarded(@)]
       ELSE /\ wire' = [wire EXCEPT ![e] = IF socket[e] = "open" THEN @ \o frames ELSE @]
            /\ UNCHANGED socket

\* the head of the peer's queue is consumed and e writes frames
ReceivedAndWritten(e, frames) ==
    /\ log' = [log EXCEPT ![e] = @ \o frames]
    /\ IF frames # <<>> /\ socket[e] = "ended"
       THEN /\ socket' = [socket EXCEPT ![e] = "destroyed"]
            /\ wire' = [wire EXCEPT ![Peer(e)] = Tail(@), ![e] = Undiscarded(@)]
       ELSE /\ wire' = [wire EXCEPT ![Peer(e)] = Tail(@),
                                    ![e] = IF socket[e] = "open" THEN @ \o frames ELSE @]
            /\ UNCHANGED socket

\* the registry fields of the local state st become those of endpoint e
StubsBecome(e, st) ==
    /\ knownStubs' = [knownStubs EXCEPT ![e] = st.knownStubs]
    /\ knownStubIds' = [knownStubIds EXCEPT ![e] = st.knownStubIds]
    /\ stubCnt' = [stubCnt EXCEPT ![e] = st.stubCnt]
    /\ newObjects' = [newObjects EXCEPT ![e] = st.newObjects]

\* resolver.resolve / resolver.reject: a promise settles once, later invocations do nothing
Settle(p, st, val) ==
    IF p.st = "pending"
    THEN [p EXCEPT !.st = st, !.val = val, !.n = @ + 1]
    ELSE [p EXCEPT !.n = @ + 1]


-----------------------------------------------------------------------------
(* Public operations, invoked by the application *)

\* socket.addStub(obj), called directly by the application
AddStub(e, o) ==
    LET r == AddStubOp(e, LocalState(e), o) IN
    /\ StubsBecome(e, r.st)
    /\ Written(e, r.st.out)
    /\ UNCHANGED <<knownProxies, pendingCalls, inCall, callId, ended, proxies, props,
                   promise, serving, nFrees, freedObjs, prevFreed, freedProxies>>

\* call(): the marshalling of the arguments, run with _inCall set
MarshalCallArgs(e, args) ==
    MarshalList(e, DOMAIN knownProxies[e], [LocalState(e) EXCEPT !.inCall = TRUE], args)

\* what call(obj, method, args) hands back to its caller in the current state:
\* a synchronous throw, an already rejected promise, or a pending promise
CallOutcome(e, args) ==
    IF inCall[e]
    THEN [kind |-> "throw", err |-> TypeError("Re-entrant calls are not supported")]
    ELSE IF ended[e]
    THEN [kind |-> "rejected", err |-> SocketClosedError]
    ELSE IF MarshalCallArgs(e, args).err # NoError
    THEN [kind |-> "throw", err |-> MarshalCallArgs(e, args).err]
    ELSE [kind |-> "promise", err |-> NoError]

\* the proxies inside a value
RECURSIVE ProxyValues(_)
ProxyValues(v) ==
    CASE v.t = "proxy" -> {v}
      [] v.t = "arr" -> UNION {ProxyValues(v.elems[i]) : i \in 1..Len(v.elems)}
      [] OTHER -> {}

\* the oids they carry
ProxyOids(v) == {p.oid : p \in ProxyValues(v)}

\* some proxy among args is not the proxy the registry of e holds for its oid
StaleArgs(e, args) ==
    \E p \in ProxyValues(Arr(args)) :
        p.oid \notin DOMAIN knownProxies[e] \/ knownProxies[e][p.oid] # p.inst

\* Faulty variant of CallFrames: the call frame leaves before the announcements
CallFramesCallFirst(announcements, msg) == <<msg>> \o announcements

\* Faulty variant of CallFrames: the deferred announcements leave last one first
CallFramesReversed(announcements, msg) ==
    [k \in 1..Len(announcements) |-> announcements[Len(announcements) + 1 - k]] \o <<msg>>

\* what call() writes: the deferred announcements in order, then the call frame
CallFrames(announcements, msg) == announcements \o <<msg>>

\* Faulty variant of call: the counter is read and not incremented
CallKeepsCounter(e, oid, method, args) ==
    LET m == MarshalCallArgs(e, args)
        id == callId[e]
    IN
    IF inCall[e] \/ ended[e]
    THEN UNCHANGED vars
    ELSE IF m.err # NoError
    THEN /\ inCall' = [inCall EXCEPT ![e] = TRUE]
         /\ StubsBecome(e, m.st)
         /\ UNCHANGED <<knownProxies, pendingCalls, callId, ended, socket, proxies, props,
                        promise, serving, wire, log, nFrees, freedObjs, prevFreed, freedProxies>>
    ELSE /\ StubsBecome(e, [m.st EXCEPT !.newObjects = <<>>])
         /\ inCall' = [inCall EXCEPT ![e] = FALSE]
         /\ callId' = callId
         /\ pendingCalls' = [pendingCalls EXCEPT ![e] = @ \cup {id}]
         /\ promise' = [promise EXCEPT ![e] =
                Append(@, [st |-> "pending", val |-> Undefined, n |-> 0, oid |-> oid,
                           method |-> method, args |-> args,
                           touched |-> StaleArgs(e, args),
                           registered |-> oid \in DOMAIN knownProxies[e],
                           raced |-> FALSE])]
         /\ Written(e, CallFrames(m.st.newObjects, CallMessage(id, oid, method, m.val)))
         /\ UNCHANGED <<knownProxies, ended, proxies, props, serving, nFrees, freedObjs, prevFreed, freedProxies>>

\* Faulty variant of call: the call id is taken before the arguments are marshalled
CallBurnsId(e, oid, method, args) ==
    LET m == MarshalCallArgs(e, args)
        id == callId[e]
    IN
    IF inCall[e] \/ ended[e]
    THEN UNCHANGED vars
    ELSE IF m.err # NoError
    THEN /\ inCall' = [inCall EXCEPT ![e] = TRUE]
         /\ StubsBecome(e, m.st)
         /\ callId' = [callId EXCEPT ![e] = id + 1]
         /\ UNCHANGED <<knownProxies, pendingCalls, ended, socket, proxies, props,
                        promise, serving, wire, log, nFrees, freedObjs, prevFreed, freedProxies>>
    ELSE /\ StubsBecome(e, [m.st EXCEPT !.newObjects = <<>>])
         /\ inCall' = [inCall EXCEPT ![e] = FALSE]
         /\ callId' = [callId EXCEPT ![e] = id + 1]
         /\ pendingCalls' = [pendingCalls EXCEPT ![e] = @ \cup {id}]
         /\ promise' = [promise EXCEPT ![e] =
                Append(@, [st |-> "pending", val |-> Undefined, n |-> 0, oid |-> oid,
                           method |-> method, args |-> args,
                           touched |-> StaleArgs(e, args),
                           registered |-> oid \in DOMAIN knownProxies[e],
                           raced |-> FALSE])]
         /\ Written(e, CallFrames(m.st.newObjects, CallMessage(id, oid, method, m.val)))
         /\ UNCHANGED <<knownProxies, ended, proxies, props, serving, nFrees, freedObjs, prevFreed, freedProxies>>

\* Faulty variant of call: the _inCall test is missing
CallNoReentryTest(e, oid, method, args) ==
    LET m == MarshalCallArgs(e, args)
        id == callId[e]
    IN
    IF ended[e]
    THEN UNCHANGED vars
    ELSE IF m.err # NoError
    THEN /\ inCall' = [inCall EXCEPT ![e] = TRUE]
         /\ StubsBecome(e, m.st)
         /\ UNCHANGED <<knownProxies, pendingCalls, callId, ended, socket, proxies, props,
                        promise, serving, wire, log, nFrees, freedObjs, prevFreed, freedProxies>>
    ELSE /\ StubsBecome(e, [m.st EXCEPT !.newObjects = <<>>])
         /\ inCall' = [inCall EXCEPT ![e] = FALSE]
         /\ callId' = [callId EXCEPT ![e] = id + 1]
         /\ pendingCalls' = [pendingCalls EXCEPT ![e] = @ \cup {id}]
         /\ promise' = [promise EXCEPT ![e] =
                Append(@, [st |-> "pending", val |-> Undefined, n |-> 0, oid |-> oid,
                           method |-> method, args |-> args,
                           touched |-> StaleArgs(e, args),
                           registered |-> oid \in DOMAIN knownProxies[e],
                           raced |-> FALSE])]
         /\ Written(e, CallFrames(m.st.newObjects, CallMessage(id, oid, method, m.val)))
         /\ UNCHANGED <<knownProxies, ended, proxies, props, serving, nFrees, freedObjs, prevFreed, freedProxies>>

\* socket.call(obj, method, args), directly or through a proxy's call site
Call(e, oid, method, args) ==
    LET m == MarshalCallArgs(e, args)
        id == callId[e]
    IN
    IF inCall[e] \/ ended[e]
    THEN UNCHANGED vars
    ELSE IF m.err # NoError
    THEN /\ inCall' = [inCall EXCEPT ![e] = TRUE]
         /\ StubsBecome(e, m.st)
         /\ UNCHANGED <<knownProxies, pendingCalls, callId, ended, socket, proxies, props,
                        promise, serving, wire, log, nFrees, freedObjs, prevFreed, freedProxies>>
    ELSE /\ StubsBecome(e, [m.st EXCEPT !.newObjects = <<>>])
         /\ inCall' = [inCall EXCEPT ![e] = FALSE]
         /\ callId' = [callId EXCEPT ![e] = id + 1]
         /\ pendingCalls' = [pendingCalls EXCEPT ![e] = @ \cup {id}]
         /\ promise' = [promise EXCEPT ![e] =
                Append(@, [st |-> "pending", val |-> Undefined, n |-> 0, oid |-> oid,
                           method |-> method, args |-> args,
                           touched |-> StaleArgs(e, args),
                           registered |-> oid \in DOMAIN knownProxies[e],
                           raced |-> FALSE])]
         /\ Written(e, CallFrames(m.st.newObjects, CallMessage(id, oid, method, m.val)))
         /\ UNCHANGED <<knownProxies, ended, proxies, props, serving, nFrees, freedObjs, prevFreed, freedProxies>>

\* Faulty variant of freeProxy: the free frame is sent, the registry keeps the proxy
FreeProxyKeepsRegistered(e, i) ==
    LET id == proxies[e][i] IN
    /\ nFrees' = [nFrees EXCEPT ![e] = @ + 1]
    /\ freedProxies' = [freedProxies EXCEPT ![e] = @ \cup {i}]
    /\ Written(e, IF ended[e] THEN <<>> ELSE <<FreeMessage(id)>>)
    /\ UNCHANGED <<knownStubs, knownStubIds, knownProxies, pendingCalls, inCall, newObjects,
                   callId, ended, stubCnt, proxies, props, promise, serving, freedObjs, prevFreed>>

\* Faulty variant of freeProxy: the free frame is written without looking at _ended
FreeProxyAlwaysWrites(e, i) ==
    LET id == proxies[e][i] IN
    /\ nFrees' = [nFrees EXCEPT ![e] = @ + 1]
    /\ freedProxies' = [freedProxies EXCEPT ![e] = @ \cup {i}]
    /\ knownProxies' = [knownProxies EXCEPT ![e] = MapRemove(@, id)]
    /\ Written(e, <<FreeMessage(id)>>)
    /\ UNCHANGED <<knownStubs, knownStubIds, pendingCalls, inCall, newObjects, callId,
                   ended, stubCnt, proxies, props, promise, serving, freedObjs, prevFreed>>

\* proxy.$free() on the proxy instance i, whether or not it is still registered
FreeProxy(e, i) ==
    LET id == proxies[e][i] IN
    /\ nFrees' = [nFrees EXCEPT ![e] = @ + 1]
    /\ freedProxies' = [freedProxies EXCEPT ![e] = @ \cup {i}]
    /\ knownProxies' = [knownProxies EXCEPT ![e] = MapRemove(@, id)]
    /\ Written(e, IF ended[e] THEN <<>> ELSE <<FreeMessage(id)>>)
    /\ promise' = [promise EXCEPT ![e] =
           [k \in DOMAIN @ |->
               IF @[k].st = "pending"
               THEN [@[k] EXCEPT !.raced = TRUE,
                                 !.touched = @ \/ id \in ProxyOids(Arr(promise[e][k].args))]
               ELSE @[k]]]
    /\ UNCHANGED <<knownStubs, knownStubIds, pendingCalls, inCall, newObjects, callId,
                   ended, stubCnt, proxies, props, serving, freedObjs, prevFreed>>

\* the application objects that define a $free of their own before they are stubbed:
\* those of one endpoint do, those of the other do not
HadFree(o) == \E k \in 1..NumObjs : o = 10 * 2 + k

\* Faulty variant of make$free: the $free installed forgets the object's earlier $free
MakeFreeDropsPrev(o, id) == [deletes |-> id, runsPrev |-> FALSE]

\* the $free that make$free installs on obj for the stub id: what it deletes from
\* knownStubIds, and whether it then runs the $free the object had before
MakeFree(o, id) == [deletes |-> id, runsPrev |-> HadFree(o)]

\* obj.$free() as installed by make$free when obj was first stubbed
ObjFree(e, o) ==
    /\ o \in DOMAIN knownStubs[e]
    /\ nFrees' = [nFrees EXCEPT ![e] = @ + 1]
    /\ knownStubIds' = [knownStubIds EXCEPT ![e] = MapRemove(@, MakeFree(o, knownStubs[e][o]).deletes)]
    /\ freedObjs' = [freedObjs EXCEPT ![e] = @ \cup {knownStubs[e][o]}]
    /\ prevFreed' = [prevFreed EXCEPT ![e] =
           IF MakeFree(o, knownStubs[e][o]).runsPrev THEN @ \cup {o} ELSE @]
    /\ UNCHANGED <<knownStubs, knownProxies, pendingCalls, inCall, newObjects, callId,
                   ended, socket, stubCnt, proxies, props, promise, serving, wire, log, freedProxies>>

-----------------------------------------------------------------------------
(* Transport events *)

\* Faulty variant of _failAllCalls: the calls are rejected and left in the table
FailAllCallsKeepTable(e) ==
    /\ promise' = [promise EXCEPT ![e] =
           [k \in DOMAIN @ |->
               IF (k - 1) \in pendingCalls[e]
               THEN Settle(@[k], "rejected", SocketClosedError) ELSE @[k]]]
    /\ UNCHANGED pendingCalls

\* _failAllCalls(): every pending resolver is rejected, the table is replaced
FailAllCalls(e) ==
    /\ promise' = [promise EXCEPT ![e] =
           [k \in DOMAIN @ |->
               IF (k - 1) \in pendingCalls[e]
               THEN Settle(@[k], "rejected", SocketClosedError) ELSE @[k]]]
    /\ pendingCalls' = [pendingCalls EXCEPT ![e] = {}]

\* the transport's 'error' event
SocketError(e) ==
    /\ ~ended[e]
    /\ FailAllCalls(e)
    /\ UNCHANGED <<knownStubs, knownStubIds, knownProxies, inCall, newObjects, callId,
                   ended, socket, stubCnt, proxies, props, serving, wire, log, nFrees, freedObjs, prevFreed, freedProxies>>

\* the transport's 'end' event
SocketEnd(e) ==
    /\ ~ended[e]
    /\ UNCHANGED <<knownStubs, knownStubIds, knownProxies, pendingCalls, inCall,
                   newObjects, callId, ended, socket, stubCnt, proxies, props, promise, serving,
                   wire, log, nFrees, freedObjs, prevFreed, freedProxies>>

\* RpcSocket.end(): the stream takes no more writes; what it holds is still delivered
End(e) ==
    IF socket[e] = "open"
    THEN /\ socket' = [socket EXCEPT ![e] = "ended"]
         /\ UNCHANGED <<knownStubs, knownStubIds, knownProxies, pendingCalls, inCall,
                        newObjects, callId, ended, stubCnt, proxies, props, promise, serving,
                        wire, log, nFrees, freedObjs, prevFreed, freedProxies>>
    ELSE UNCHANGED vars

\* RpcSocket.destroy(): the stream takes no more writes and drops what it has buffered;
\* its 'close' event follows
Destroy(e) ==
    IF socket[e] # "destroyed"
    THEN /\ socket' = [socket EXCEPT ![e] = "destroyed"]
         /\ wire' = [wire EXCEPT ![e] = Undiscarded(@)]
         /\ UNCHANGED <<knownStubs, knownStubIds, knownProxies, pendingCalls, inCall,
                        newObjects, callId, ended, stubCnt, proxies, props, promise, serving,
                        log, nFrees, freedObjs, prevFreed, freedProxies>>
    ELSE UNCHANGED vars

\* the transport's 'close' event: the stream emits it once it is destroyed, by destroy()
\* or by itself
SocketClose(e) ==
    /\ ~ended[e]
    /\ ended' = [ended EXCEPT ![e] = TRUE]
    /\ socket' = [socket EXCEPT ![e] = "destroyed"]
    /\ wire' = [wire EXCEPT ![e] = Undiscarded(@)]
    /\ UNCHANGED <<knownStubs, knownStubIds, knownProxies, pendingCalls, inCall,
                   newObjects, callId, stubCnt, proxies, props, promise, serving,
                   log, nFrees, freedObjs, prevFreed, freedProxies>>

-----------------------------------------------------------------------------
(* _handleMessage: one frame taken from the transport *)

Incoming(e) == Head(wire[Peer(e)])

CanReceive(e, control) ==
    /\ ~ended[e]
    /\ socket[e] # "destroyed"
    /\ wire[Peer(e)] # <<>>
    /\ Incoming(e).control = control

\* Faulty variant of case 'new-object': a proxy is constructed for every frame
HandleNewObjectAlways(e) ==
    LET msg == Incoming(e) IN
    /\ CanReceive(e, "new-object")
    /\ proxies' = [proxies EXCEPT ![e] = Append(@, msg.obj)]
    /\ knownProxies' = [knownProxies EXCEPT ![e] =
                            (msg.obj :> Len(proxies[e]) + 1) @@ @]
    /\ ReceivedAndWritten(e, <<>>)
    /\ UNCHANGED <<knownStubs, knownStubIds, pendingCalls, inCall, newObjects, callId,
                   ended, stubCnt, props, promise, serving, nFrees, freedObjs, prevFreed, freedProxies>>

\* case 'new-object'
HandleNewObject(e) ==
    LET msg == Incoming(e) IN
    /\ CanReceive(e, "new-object")
    /\ IF msg.obj \in DOMAIN knownProxies[e]
       THEN UNCHANGED <<knownProxies, proxies>>
       ELSE /\ proxies' = [proxies EXCEPT ![e] = Append(@, msg.obj)]
            /\ knownProxies' = [knownProxies EXCEPT ![e] = @ @@ (msg.obj :> Len(proxies[e]) + 1)]
    /\ ReceivedAndWritten(e, <<>>)
    /\ UNCHANGED <<knownStubs, knownStubIds, pendingCalls, inCall, newObjects, callId,
                   ended, stubCnt, props, promise, serving, nFrees, freedObjs, prevFreed, freedProxies>>

\* Faulty variant of the try block of _handleCall: the argument count of `get ` and
\* `set ` is checked before the parameters are unmarshalled
CallErrorArityFirst(e, msg, unmarshalled) ==
    IF msg.obj \notin DOMAIN knownStubIds[e] THEN InvalidObjectError(msg.obj)
    ELSE IF MethodPrefix(msg.method) = "get " /\ Len(msg.params) # 0
    THEN TypeError("Wrong number of arguments, expected 0")
    ELSE IF MethodPrefix(msg.method) = "set " /\ Len(msg.params) # 1
    THEN TypeError("Wrong number of arguments, expected 1")
    ELSE IF unmarshalled.err # NoError THEN unmarshalled.err
    ELSE IF MethodPrefix(msg.method) \in {"get ", "set "}
    THEN ValidateCall("get " \o MethodRest(msg.method))
    ELSE ValidateCall(msg.method)

\* what the try block of _handleCall throws before the stubbed method is invoked
CallError(e, msg, unmarshalled) ==
    IF msg.obj \notin DOMAIN knownStubIds[e] THEN InvalidObjectError(msg.obj)
    ELSE IF unmarshalled.err # NoError THEN unmarshalled.err
    ELSE IF MethodPrefix(msg.method) = "get "
    THEN IF Len(unmarshalled.val) # 0
         THEN TypeError("Wrong number of arguments, expected 0")
         ELSE ValidateCall("get " \o MethodRest(msg.method))
    ELSE IF MethodPrefix(msg.method) = "set "
    THEN IF Len(unmarshalled.val) # 1
         THEN TypeError("Wrong number of arguments, expected 1")
         ELSE ValidateCall("get " \o MethodRest(msg.method))
    ELSE ValidateCall(msg.method)

\* Faulty variant of _handleCall: the reply is written without awaiting the method
HandleCallNoAwait(e) ==
    LET msg == Incoming(e)
        unmarshalled == UnmarshalList(knownStubIds[e], knownProxies[e], msg.params)
        error == CallError(e, msg, unmarshalled)
    IN
    /\ CanReceive(e, "call")
    /\ ReceivedAndWritten(e, <<IF error # NoError THEN ErrorReplyMessage(msg.id, error)
                                ELSE ReplyMessage(msg.id, Undefined)>>)
    /\ UNCHANGED <<knownStubs, knownStubIds, knownProxies, pendingCalls, inCall, newObjects,
                   callId, ended, stubCnt, proxies, promise, nFrees, freedObjs, prevFreed, freedProxies,
                   props, serving>>

\* case 'call': _handleCall up to its first await
HandleCall(e) ==
    LET msg == Incoming(e)
        unmarshalled == UnmarshalList(knownStubIds[e], knownProxies[e], msg.params)
        error == CallError(e, msg, unmarshalled)
        o == knownStubIds[e][msg.obj]
    IN
    /\ CanReceive(e, "call")
    /\ IF error # NoError
       THEN /\ ReceivedAndWritten(e, <<ErrorReplyMessage(msg.id, error)>>)
            /\ UNCHANGED <<props, serving>>
       ELSE IF MethodPrefix(msg.method) = "set "
       THEN /\ props' = [props EXCEPT ![e][o] = unmarshalled.val[1]]
            /\ ReceivedAndWritten(e, <<ReplyMessage(msg.id, Undefined)>>)
            /\ UNCHANGED serving
       ELSE /\ serving' = [serving EXCEPT ![e] = @ \cup
                   {[id |-> msg.id, o |-> o, method |-> msg.method, args |-> unmarshalled.val,
                     val |-> IF MethodPrefix(msg.method) = "get " THEN props[e][o] ELSE Undefined]}]
            /\ ReceivedAndWritten(e, <<>>)
            /\ UNCHANGED props
    /\ UNCHANGED <<knownStubs, knownStubIds, knownProxies, pendingCalls, inCall, newObjects,
                   callId, ended, stubCnt, proxies, promise, nFrees, freedObjs, prevFreed, freedProxies>>

\* Faulty variant of _handleReply: the entry stays in the pending-call table
HandleReplyKeepsEntry(e) ==
    LET msg == Incoming(e)
        unmarshalled == UnmarshalArgument(knownStubIds[e], knownProxies[e], msg.reply)
    IN
    /\ CanReceive(e, "reply")
    /\ IF msg.id \notin pendingCalls[e]
       THEN UNCHANGED <<pendingCalls, promise>>
       ELSE /\ UNCHANGED pendingCalls
            /\ promise' = [promise EXCEPT ![e][msg.id + 1] =
                   IF msg.error # "" THEN Settle(@, "rejected", ReplyError(msg))
                   ELSE IF unmarshalled.err # NoError THEN Settle(@, "rejected", unmarshalled.err)
                   ELSE Settle(@, "resolved", unmarshalled.val)]
    /\ ReceivedAndWritten(e, <<>>)
    /\ UNCHANGED <<knownStubs, knownStubIds, knownProxies, inCall, newObjects, callId,
                   ended, stubCnt, proxies, props, serving, nFrees, freedObjs, prevFreed, freedProxies>>

\* Faulty variant of _handleReply: replies are matched to the pending calls in the
\* order of the requests, the oldest pending call first, whatever id the frame carries
HandleReplyInOrder(e) ==
    LET msg == Incoming(e)
        unmarshalled == UnmarshalArgument(knownStubIds[e], knownProxies[e], msg.reply)
        id == CHOOSE i \in pendingCalls[e] : \A j \in pendingCalls[e] : i <= j
    IN
    /\ CanReceive(e, "reply")
    /\ IF pendingCalls[e] = {}
       THEN UNCHANGED <<pendingCalls, promise>>
       ELSE /\ pendingCalls' = [pendingCalls EXCEPT ![e] = @ \ {id}]
            /\ promise' = [promise EXCEPT ![e][id + 1] =
                   IF msg.error # "" THEN Settle(@, "rejected", ReplyError(msg))
                   ELSE IF unmarshalled.err # NoError THEN Settle(@, "rejected", unmarshalled.err)
                   ELSE Settle(@, "resolved", unmarshalled.val)]
    /\ ReceivedAndWritten(e, <<>>)
    /\ UNCHANGED <<knownStubs, knownStubIds, knownProxies, inCall, newObjects, callId,
                   ended, stubCnt, proxies, props, serving, nFrees, freedObjs, prevFreed, freedProxies>>

\* case 'reply'
HandleReply(e) ==
    LET msg == Incoming(e)
        unmarshalled == UnmarshalArgument(knownStubIds[e], knownProxies[e], msg.reply)
    IN
    /\ CanReceive(e, "reply")
    /\ IF msg.id \notin pendingCalls[e]
       THEN UNCHANGED <<pendingCalls, promise>>
       ELSE /\ pendingCalls' = [pendingCalls EXCEPT ![e] = @ \ {msg.id}]
            /\ promise' = [promise EXCEPT ![e][msg.id + 1] =
                   IF msg.error # "" THEN Settle(@, "rejected", ReplyError(msg))
                   ELSE IF unmarshalled.err # NoError THEN Settle(@, "rejected", unmarshalled.err)
                   ELSE Settle(@, "resolved", unmarshalled.val)]
    /\ ReceivedAndWritten(e, <<>>)
    /\ UNCHANGED <<knownStubs, knownStubIds, knownProxies, inCall, newObjects, callId,
                   ended, stubCnt, proxies, props, serving, nFrees, freedObjs, prevFreed, freedProxies>>

\* Faulty variant of _handleFree: only the stub map is looked at
HandleFreeStubsOnly(e) ==
    LET id == Incoming(e).id IN
    /\ CanReceive(e, "free")
    /\ knownStubIds' = [knownStubIds EXCEPT ![e] = MapRemove(@, id)]
    /\ ReceivedAndWritten(e, <<>>)
    /\ UNCHANGED <<knownStubs, knownProxies, pendingCalls, inCall, newObjects, callId, ended,
                   stubCnt, proxies, props, promise, serving, nFrees, freedObjs, prevFreed,
                   freedProxies>>

\* case 'free'
HandleFree(e) ==
    LET id == Incoming(e).id IN
    /\ CanReceive(e, "free")
    /\ IF id \in DOMAIN knownStubIds[e]
       THEN /\ knownStubIds' = [knownStubIds EXCEPT ![e] = MapRemove(@, id)]
            /\ UNCHANGED knownProxies
       ELSE /\ knownProxies' = [knownProxies EXCEPT ![e] = MapRemove(@, id)]
            /\ UNCHANGED knownStubIds
    /\ ReceivedAndWritten(e, <<>>)
    /\ UNCHANGED <<knownStubs, pendingCalls, inCall, newObjects, callId, ended, stubCnt,
                   proxies, props, promise, serving, nFrees, freedObjs, prevFreed, freedProxies>>

-----------------------------------------------------------------------------
(* The stubbed methods of the application, and _handleCall after its await *)

\* how an invoked method can complete: the methods of the tests
Outcomes(objs, inv) ==
    CASE inv.method = "echo" -> {[kind |-> "return", val |-> Arr(inv.args)]}
      [] inv.method = "getObject" -> {[kind |-> "return", val |-> ObjV(o)] : o \in objs}
      [] inv.method = "fail" -> {[kind |-> "throw", val |-> err] : err \in ThrownValues}
      [] OTHER -> {[kind |-> "return", val |-> inv.val]}

\* the method invoked for inv completes with outcome oc; the reply is marshalled and written
Complete(e, inv, oc) ==
    LET m == MarshalArgument(e, DOMAIN knownProxies[e], LocalState(e), oc.val) IN
    /\ inv \in serving[e]
    /\ serving' = [serving EXCEPT ![e] = @ \ {inv}]
    /\ IF oc.kind = "throw"
       THEN /\ Written(e, IF ended[e] \/ oc.val = ThrownUndefined THEN <<>>
                          ELSE <<ErrorReplyMessage(inv.id, oc.val)>>)
            /\ UNCHANGED <<knownStubs, knownStubIds, stubCnt, newObjects>>
       ELSE IF m.err # NoError
       THEN /\ StubsBecome(e, m.st)
            /\ Written(e, m.st.out \o
                          (IF ended[e] THEN <<>> ELSE <<ErrorReplyMessage(inv.id, m.err)>>))
       ELSE /\ StubsBecome(e, m.st)
            /\ Written(e, m.st.out \o <<ReplyMessage(inv.id, m.val)>>)
    /\ UNCHANGED <<knownProxies, pendingCalls, inCall, callId, ended, proxies, props,
                   promise, nFrees, freedObjs, prevFreed, freedProxies>>

-----------------------------------------------------------------------------
(* What the application may ask for *)

\* oids the application can name: every oid the peer has allocated
TargetOids(e) == {MkOid(Peer(e), c) : c \in 0..(stubCnt[Peer(e)] - 1)}

\* the proxy objects the application may hold, freed or not
ProxyHandles(e) == {ProxyV(proxies[e][i], i) : i \in 1..Len(proxies[e])}

\* argument lists: none, one reference, or the mixed payload of testMarshal
ArgLists(e, objs) ==
    {<<>>} \cup {<<r>> : r \in {ObjV(o) : o \in objs} \cup ProxyHandles(e)} \cup
    {<<p, ObjV(o), Arr(<<p, ObjV(o), Prim(7)>>), PlainRecord, Prim(72)>> :
        p \in ProxyHandles(e), o \in objs}

CallShapes(e, objs) ==
    {<<"echo", a>> : a \in ArgLists(e, objs)} \cup
    {<<m, <<>>>> : m \in {"getObject", "fail", "get value", "hidden"}}

\* the objects the application of Spec works with
SpecObjects(e) == SomeObjects(e, MaxSpecObjs)

\* a call that would allocate a callId is within the budget
CallAllowed(e, args) == CallOutcome(e, args).kind = "promise" => CallsMade < MaxCalls

Next ==
    \/ \E e \in E : \E o \in SpecObjects(e) \cup {PlainObject(e)} : AddStub(e, o)
    \/ \E e \in E : \E oid \in TargetOids(e), c \in CallShapes(e, SpecObjects(e)) :
          CallAllowed(e, c[2]) /\ Call(e, oid, c[1], c[2])
    \/ \E e \in E : \E i \in 1..Len(proxies[e]) : FreesMade < MaxFrees /\ FreeProxy(e, i)
    \/ \E e \in E : \E o \in SpecObjects(e) : FreesMade < MaxFrees /\ ObjFree(e, o)
    \/ \E e \in E : SocketError(e)
    \/ \E e \in E : SocketEnd(e)
    \/ \E e \in E : Closes < MaxCloses /\ SocketClose(e)
    \/ \E e \in E : HandleNewObject(e)
    \/ \E e \in E : HandleCall(e)
    \/ \E e \in E : HandleReply(e)
    \/ \E e \in E : HandleFree(e)
    \/ \E e \in E : \E inv \in serving[e] : \E oc \in Outcomes(SpecObjects(e), inv) :
          Complete(e, inv, oc)

Spec == Init /\ [][Next]_vars

-----------------------------------------------------------------------------
(* testProxyFree at large: endpoint 2 exports its first object and returns   *)
(* any of its objects from getObject; endpoint 1 calls                       *)
(* getObject and reads value through whatever it can name, awaiting each     *)
(* call before the next, and frees proxies it holds registered; the          *)
(* transport stays up.                                                       *)

Server == 2
Client == 1

\* the proxy instance i is the one the registry of e holds for its oid
Registered(e, i) ==
    /\ proxies[e][i] \in DOMAIN knownProxies[e]
    /\ knownProxies[e][proxies[e][i]] = i

NextReuse ==
    \/ \E o \in SomeObjects(Server, 1) : AddStub(Server, o)
    \/ \E oid \in TargetOids(Client), method \in {"getObject", "get value"} :
          /\ callId[Client] < MaxReuseCalls
          /\ pendingCalls[Client] = {}
          /\ Call(Client, oid, method, <<>>)
    \/ \E i \in 1..Len(proxies[Client]) :
          nFrees[Client] < MaxFrees /\ Registered(Client, i) /\ FreeProxy(Client, i)
    \/ \E e \in E : HandleNewObject(e)
    \/ \E e \in E : HandleCall(e)
    \/ \E e \in E : HandleReply(e)
    \/ \E e \in E : HandleFree(e)
    \/ \E inv \in serving[Server] : \E oc \in Outcomes(Objects(Server), inv) :
          Complete(Server, inv, oc)

SpecReuse == Init /\ [][NextReuse]_vars

\* the event loop: a frame written is eventually delivered ('data'), a stubbed
\* method invoked eventually completes
Receive(e) == HandleNewObject(e) \/ HandleCall(e) \/ HandleReply(e) \/ HandleFree(e)

Finish(e, objs) == \E inv \in serving[e] : \E oc \in Outcomes(objs, inv) : Complete(e, inv, oc)

SpecReuseFair ==
    /\ SpecReuse
    /\ \A e \in E : WF_vars(Receive(e))
    /\ WF_vars(Finish(Server, Objects(Server)))

-----------------------------------------------------------------------------
(* testProxyOtherDirection at large: the client passes its own objects to    *)
(* the server; the server's method, while serving call number id, reads      *)
(* value through the proxy it received (its own call number id) and returns  *)
(* only when that read has settled, throwing what the read was rejected with *)

\* the method serving inv calls back through the proxy it received
CallBack(inv) ==
    /\ inv \in serving[Server]
    /\ callId[Server] = inv.id
    /\ \E p \in ProxyValues(Arr(inv.args)) : Call(Server, p.oid, "get value", <<>>)

\* the awaited read has settled: the method serving inv returns, with no value as
\* checkObject does, or throws
CompleteAfterCallBack(inv) ==
    /\ inv \in serving[Server]
    /\ Len(promise[Server]) > inv.id
    /\ promise[Server][inv.id + 1].st # "pending"
    /\ Complete(Server, inv,
                IF promise[Server][inv.id + 1].st = "resolved"
                THEN [kind |-> "return", val |-> Undefined]
                ELSE [kind |-> "throw", val |-> promise[Server][inv.id + 1].val])

NextCallback ==
    \/ \E o \in SomeObjects(Server, 1) : AddStub(Server, o)
    \/ \E oid \in TargetOids(Client), o \in Objects(Client) :
          callId[Client] < MaxCallbackCalls /\ Call(Client, oid, "echo", <<ObjV(o)>>)
    \/ \E inv \in serving[Server] : CallBack(inv)
    \/ \E inv \in serving[Server] : CompleteAfterCallBack(inv)
    \/ \E e \in E : HandleNewObject(e)
    \/ \E e \in E : HandleCall(e)
    \/ \E e \in E : HandleReply(e)
    \/ Finish(Client, Objects(Client))

SpecCallback ==
    /\ Init /\ [][NextCallback]_vars
    /\ \A e \in E : WF_vars(Receive(e))
    /\ WF_vars(Finish(Client, Objects(Client)))
    /\ WF_vars(\E inv \in serving[Server] : CallBack(inv))
    /\ WF_vars(\E inv \in serving[Server] : CompleteAfterCallBack(inv))

\* The calls of an application that reads and writes properties, declared and not,
\* and names a method that is not declared
AccessShapes ==
    { <<"hidden", <<>>>>, <<"get value", <<>>>>, <<"get secret", <<>>>>,
      <<"set value", <<Prim(5)>>>>, <<"set secret", <<Prim(5)>>>>,
      <<"get secret", <<Prim(5)>>>>, <<"set secret", <<>>>>,
      <<"get value", <<Prim(5)>>>>, <<"set value", <<>>>>,
      <<"set value", <<Prim(5), Prim(6)>>>> }

\* The same accessors and the undeclared method called with a proxy the caller
\* holds as a parameter, or as an element of an array parameter
ProxyShapes(e) ==
    {<<m, <<p>>>> : m \in {"hidden", "get value", "set value", "set secret"},
                    p \in ProxyHandles(e)} \cup
    {<<"set value", <<Prim(5), p>>>> : p \in ProxyHandles(e)} \cup
    {<<"set value", <<Arr(<<Prim(5), p>>)>>>> : p \in ProxyHandles(e)}

\* the method names a proxy built from an announced method list sends in its call frames
ProxySites(methods) ==
    {IF MethodPrefix(m) = "get " THEN "get " \o MethodRest(m) ELSE m : m \in SeqRange(methods)}

\* the method list of the new-object frame from which e built its proxy of oid
AnnouncedMethods(e, oid) ==
    LET ks == {k \in 1..Len(log[Peer(e)]) :
                  log[Peer(e)][k].control = "new-object" /\ log[Peer(e)][k].obj = oid}
    IN IF ks = {} THEN <<>>
       ELSE log[Peer(e)][CHOOSE k \in ks : \A j \in ks : k <= j].methods

\* a call made through a call site of e's i-th proxy: a getter passes no argument
ProxyCall(e, i, method, args) ==
    /\ i \in 1..Len(proxies[e])
    /\ method \in ProxySites(AnnouncedMethods(e, proxies[e][i]))
    /\ MethodPrefix(method) = "get " => args = <<>>
    /\ Call(e, proxies[e][i], method, args)

\* every method name of the accessor calls and of the snapshot
AccessNames == {sh[1] : sh \in AccessShapes} \cup SeqRange(RpcMethods)

NextAccess ==
    \/ \E o \in Objects(Server) : AddStub(Server, o)
    \/ \E o \in SomeObjects(Server, 1) : nFrees[Server] < MaxAccessFrees /\ ObjFree(Server, o)
    \/ \E oid \in TargetOids(Client), sh \in AccessShapes \cup ProxyShapes(Client) :
          /\ callId[Client] < MaxAccessCalls /\ pendingCalls[Client] = {} /\ wire[Server] = <<>>
          /\ Call(Client, oid, sh[1], sh[2])
    \/ \E i \in 1..Len(proxies[Client]), method \in AccessNames, args \in {<<>>, <<Prim(5)>>} :
          /\ callId[Client] < MaxAccessCalls /\ pendingCalls[Client] = {} /\ wire[Server] = <<>>
          /\ ProxyCall(Client, i, method, args)
    \/ \E e \in E : HandleNewObject(e)
    \/ \E e \in E : HandleCall(e)
    \/ \E e \in E : HandleReply(e)
    \/ Finish(Server, Objects(Server))

SpecAccess == Init /\ [][NextAccess]_vars

\* Calls whose arguments hold several objects to stub, nested or not, and proxies
MarshalShapes(e) ==
    {<<ObjV(a), ObjV(b)>> : a, b \in Objects(e)} \cup
    {<<Arr(<<ObjV(a), Prim(7)>>), ObjV(b)>> : a, b \in Objects(e)} \cup
    {<<ObjV(a), p>> : a \in Objects(e), p \in ProxyHandles(e)}

NextMarshal ==
    \/ \E o \in SomeObjects(Server, 1) : AddStub(Server, o)
    \/ \E oid \in TargetOids(Client), args \in MarshalShapes(Client) :
          callId[Client] < MaxMarshalCalls /\ Call(Client, oid, "echo", args)
    \/ \E i \in 1..Len(proxies[Client]) : nFrees[Client] < MaxFrees /\ FreeProxy(Client, i)
    \/ \E o \in Objects(Client) : nFrees[Client] < MaxFrees /\ ObjFree(Client, o)
    \/ \E e \in E : HandleNewObject(e)
    \/ \E e \in E : HandleCall(e)
    \/ \E e \in E : HandleReply(e)
    \/ \E e \in E : HandleFree(e)
    \/ Finish(Server, Objects(Server))

SpecMarshal == Init /\ [][NextMarshal]_vars

\* how many reply frames e has written
RepliesWritten(e) == Cardinality({k \in 1..Len(log[e]) : log[e][k].control = "reply"})

\* the transport of e delivers to the peer, once more, a reply frame e has written before
Resend(e) ==
    /\ RepliesWritten(e) < MaxReplyFrames
    /\ \E k \in 1..Len(log[e]) :
          /\ log[e][k].control = "reply"
          /\ Written(e, <<log[e][k]>>)
    /\ UNCHANGED <<knownStubs, knownStubIds, knownProxies, pendingCalls, inCall, newObjects,
                   callId, ended, stubCnt, proxies, props, promise, serving, nFrees,
                   freedObjs, prevFreed, freedProxies>>

\* Several calls pending at once, served in any order; replies repeated; transport errors
NextReplies ==
    \/ \E o \in SomeObjects(Server, 1) : AddStub(Server, o)
    \/ \E oid \in TargetOids(Client), method \in {"get value", "getObject", "fail", "hidden"} :
          callId[Client] < MaxReplyCalls /\ Call(Client, oid, method, <<>>)
    \/ SocketError(Client)
    \/ Resend(Server)
    \/ \E e \in E : HandleNewObject(e)
    \/ \E e \in E : HandleCall(e)
    \/ \E e \in E : HandleReply(e)
    \/ Finish(Server, SomeObjects(Server, 1))

SpecReplies == Init /\ [][NextReplies]_vars

\* an oid of the server's form that the server never allocates: its counter stays
\* below the number of its objects
NeverExported == MkOid(Server, NumObjs)

\* Calls to oids that are live, freed by the owner, freed by the holder, or never exported
NextInvalid ==
    \/ \E o \in SomeObjects(Server, 1) : AddStub(Server, o)
    \/ \E oid \in TargetOids(Client) \cup {NeverExported}, method \in {"get value", "getObject"} :
          callId[Client] < MaxInvalidCalls /\ Call(Client, oid, method, <<>>)
    \/ \E i \in 1..Len(proxies[Client]) : nFrees[Client] < MaxFrees /\ FreeProxy(Client, i)
    \/ \E o \in Objects(Server) : nFrees[Server] < MaxFrees /\ ObjFree(Server, o)
    \/ \E e \in E : HandleNewObject(e)
    \/ \E e \in E : HandleCall(e)
    \/ \E e \in E : HandleReply(e)
    \/ \E e \in E : HandleFree(e)
    \/ Finish(Server, Objects(Server))

SpecInvalid == Init /\ [][NextInvalid]_vars

\* every oid either endpoint could allocate, and one more of each
SomeOids == {MkOid(e, c) : e \in E, c \in 0..NumObjs}

\* how many free frames e has written
FreesWritten(e) == Cardinality({k \in 1..Len(log[e]) : log[e][k].control = "free"})

\* the peer of the receiver puts a free frame for an arbitrary oid on the transport
\* (a peer that addresses the wire itself, or one that is not this implementation)
InjectFree(e, oid) ==
    /\ FreesWritten(e) < MaxFreeFrames
    /\ Written(e, <<FreeMessage(oid)>>)
    /\ UNCHANGED <<knownStubs, knownStubIds, knownProxies, pendingCalls, inCall, newObjects,
                   callId, ended, stubCnt, proxies, props, promise, serving, nFrees,
                   freedObjs, prevFreed, freedProxies>>

\* the oids of injected free frames: the first of the receiver's own, the first of
\* the sender's, and one that neither endpoint ever holds
InjectedOids(e) == {MkOid(Peer(e), 0), MkOid(e, 0), NoOid}

\* Exports, frees by the holder, and free frames for any of these oids
NextFree ==
    \/ \E e \in E : \E o \in SomeObjects(e, 1) : AddStub(e, o)
    \/ \E e \in E : \E i \in 1..Len(proxies[e]) :
          nFrees[e] < MaxFrees /\ FreesWritten(e) < MaxFreeFrames /\ FreeProxy(e, i)
    \/ \E e \in E : \E oid \in InjectedOids(e) : InjectFree(e, oid)
    \/ \E e \in E : HandleNewObject(e)
    \/ \E e \in E : HandleFree(e)

SpecFree == Init /\ [][NextFree]_vars

\* The holder frees proxy handles, stale ones included, while the owner exports the
\* same object again, by itself or as the result of a call
NextRefree ==
    \/ \E e \in E : \E o \in SomeObjects(e, 1) : AddStub(e, o)
    \/ \E oid \in TargetOids(Client) :
          /\ callId[Client] < MaxRefreeCalls
          /\ pendingCalls[Client] = {}
          /\ Call(Client, oid, "getObject", <<>>)
    \/ \E e \in E : \E i \in 1..Len(proxies[e]) : FreesMade < MaxRefrees /\ FreeProxy(e, i)
    \/ \E e \in E : HandleNewObject(e)
    \/ \E e \in E : HandleCall(e)
    \/ \E e \in E : HandleReply(e)
    \/ \E e \in E : HandleFree(e)
    \/ Finish(Server, SomeObjects(Server, 1))

SpecRefree == Init /\ [][NextRefree]_vars

\* The application ends or destroys its socket at any moment: with frames buffered,
\* with calls pending or being served, before and after it exports and calls
NextShutdown ==
    \/ \E e \in E : \E o \in SomeObjects(e, 1) : AddStub(e, o)
    \/ \E oid \in TargetOids(Client), method \in {"echo", "getObject", "hidden"} :
          callId[Client] < MaxShutdownCalls /\ Call(Client, oid, method, <<>>)
    \/ \E e \in E : End(e)
    \/ \E e \in E : Destroy(e)
    \/ \E e \in E : SocketError(e)
    \/ \E e \in E : SocketEnd(e)
    \/ \E e \in E : SocketClose(e)
    \/ \E e \in E : HandleNewObject(e)
    \/ \E e \in E : HandleCall(e)
    \/ \E e \in E : HandleReply(e)
    \/ Finish(Server, SomeObjects(Server, 1))

SpecShutdown == Init /\ [][NextShutdown]_vars

\* a marker of an oid the server holds no proxy for ("a proxy from a different socket")
ForeignMarker == OidRef(MkOid(Client, 0))

\* The server's own call() fails in marshalling, before or after the client calls; no
\* $free, no transport failure
NextStuck ==
    \/ \E o \in SomeObjects(Server, 1) : AddStub(Server, o)
    \/ ~inCall[Server] /\ Call(Server, MkOid(Client, 0), "echo", <<ForeignMarker>>)
    \/ \E oid \in TargetOids(Client), method \in {"getObject", "get value"} :
          /\ callId[Client] < MaxStuckCalls
          /\ pendingCalls[Client] = {}
          /\ Call(Client, oid, method, <<>>)
    \/ \E e \in E : HandleNewObject(e)
    \/ \E e \in E : HandleCall(e)
    \/ \E e \in E : HandleReply(e)
    \/ Finish(Server, Objects(Server))

SpecStuck == Init /\ [][NextStuck]_vars

SpecStuckFair ==
    /\ SpecStuck
    /\ \A e \in E : WF_vars(Receive(e))
    /\ WF_vars(Finish(Server, Objects(Server)))

-----------------------------------------------------------------------------
(* Properties *)

\* the oids of the {$rpcId} markers inside a marshalled value
RECURSIVE WireOids(_)
WireOids(v) ==
    CASE v.t = "oidref" -> {v.oid}
      [] v.t = "arr" -> UNION {WireOids(v.elems[i]) : i \in 1..Len(v.elems)}
      [] OTHER -> {}

\* how many new-object frames for oid the sequence s holds
Announcements(s, oid) ==
    Cardinality({i \in 1..Len(s) : s[i].control = "new-object" /\ s[i].obj = oid})

\* a new-object frame for oid stands in s strictly before position i
AnnouncedBefore(s, i, oid) ==
    \E j \in 1..(i - 1) : s[j].control = "new-object" /\ s[j].obj = oid

\* every oid endpoint e has allocated
OwnOids(e) == {knownStubs[e][o] : o \in DOMAIN knownStubs[e]}

\* endpoint e has written a free frame for oid
FreeSent(e, oid) ==
    \E i \in 1..Len(log[e]) : log[e][i].control = "free" /\ log[e][i].id = oid

(* C1 as stated: every oid in the params of a call frame was introduced by a
   strictly earlier new-object frame written by the same endpoint. *)
C1_AnnouncedBySameEndpoint ==
    \A e \in E : \A i \in 1..Len(log[e]) :
        log[e][i].control = "call" =>
            \A oid \in WireOids(Arr(log[e][i].params)) : AnnouncedBefore(log[e], i, oid)

(* C1 amended: every oid in the params of a call frame that names a stub of
   the calling endpoint was introduced by a strictly earlier new-object frame
   written by that endpoint; every other oid in the params names a proxy and
   was introduced by a new-object frame the peer had written, in the opposite
   direction, by the time the call frame was written. *)
C1_AnnouncedByOwner ==
    \A e \in E : \A i \in 1..Len(log[e]) :
        log[e][i].control = "call" =>
            \A oid \in WireOids(Arr(log[e][i].params)) :
                IF oid \in OwnOids(e)
                THEN AnnouncedBefore(log[e], i, oid)
                ELSE AnnouncedBefore(log[Peer(e)], Len(log[Peer(e)]) + 1, oid)

\* a call frame carrying both a stub of the caller and a proxy of the caller
C1_Witness ==
    \E e \in E : \E i \in 1..Len(log[e]) :
        /\ log[e][i].control = "call"
        /\ WireOids(Arr(log[e][i].params)) \cap OwnOids(e) # {}
        /\ WireOids(Arr(log[e][i].params)) \ OwnOids(e) # {}

\* got is what the callee e holds for the value sent by its peer: the peer's
\* proxies, and the bare {$rpcId} markers of their oids, are e's own objects, the
\* peer's objects with $rpcMethods are proxies of e, anything else arrives as it is
RECURSIVE Mirrors(_, _, _)
Mirrors(e, sent, got) ==
    CASE sent.t \in {"proxy", "oidref"} ->
            /\ got.t = "obj"
            /\ got.o \in DOMAIN knownStubs[e]
            /\ knownStubs[e][got.o] = sent.oid
      [] sent.t = "obj" /\ ~IsPlainObject(sent.o) ->
            /\ got.t = "proxy"
            /\ got.oid = knownStubs[Peer(e)][sent.o]
            /\ got.inst \in 1..Len(proxies[e])
            /\ proxies[e][got.inst] = got.oid
      [] sent.t = "arr" ->
            /\ got.t = "arr"
            /\ Len(got.elems) = Len(sent.elems)
            /\ \A i \in 1..Len(sent.elems) : Mirrors(e, sent.elems[i], got.elems[i])
      [] OTHER -> got = sent

\* the stubbed method invoked for a call receives the caller's arguments:
\* plain values equal, the caller's proxies as the callee's very objects
ArgumentsArrive ==
    \A e \in E : \A inv \in serving[e] :
        Mirrors(e, Arr(promise[Peer(e)][inv.id + 1].args), Arr(inv.args))

(* C2 as stated: whenever the peer echoes the arguments of a call, the
   resolved value equals the arguments: plain values structurally, proxies as
   the same proxy instance, own objects as the objects themselves. *)
C2_EchoRoundTrip ==
    /\ ArgumentsArrive
    /\ \A e \in E : \A k \in 1..Len(promise[e]) :
          (promise[e][k].st = "resolved" /\ promise[e][k].method = "echo")
              => promise[e][k].val = Arr(promise[e][k].args)

(* C2 amended: the same, provided every proxy among the arguments is, when
   the call is made, the proxy registered for its oid (not one freed earlier),
   and the caller does not invoke $free on a proxy bearing one of these oids
   while the call is pending. *)
C2_EchoRoundTripUnfreed ==
    /\ ArgumentsArrive
    /\ \A e \in E : \A k \in 1..Len(promise[e]) :
          (promise[e][k].st = "resolved" /\ promise[e][k].method = "echo"
              /\ ~promise[e][k].touched)
              => promise[e][k].val = Arr(promise[e][k].args)

\* the mixed payload of testMarshal has made the round trip
C2_Witness ==
    \E e \in E : \E k \in 1..Len(promise[e]) :
        /\ promise[e][k].st = "resolved"
        /\ promise[e][k].method = "echo"
        /\ ~promise[e][k].touched
        /\ Len(promise[e][k].args) = 5
        /\ promise[e][k].val = Arr(promise[e][k].args)

(* C3 as stated: when an endpoint closes, every call pending at that moment
   is rejected exactly once with the closed-endpoint error, and no call
   remains pending afterwards. *)
C3_PendingRejectedOnClose ==
    [][\A e \in E : (~ended[e] /\ ended'[e]) =>
          /\ pendingCalls'[e] = {}
          /\ \A k \in 1..Len(promise[e]) :
                promise[e][k].st = "pending" =>
                    /\ promise'[e][k].st = "rejected"
                    /\ promise'[e][k].val = SocketClosedError
                    /\ promise'[e][k].n = 1]_vars

(* C4 as stated: in every state where the endpoint is closed, call() returns
   a promise rejected with the closed-endpoint error (and, returning before
   it touches anything, writes no frame, allocates no call id, adds no entry
   to the pending table). *)
C4_CallAfterCloseRejected ==
    \A e \in E : ended[e] =>
        \A args \in ArgLists(e, SpecObjects(e)) :
            CallOutcome(e, args) = [kind |-> "rejected", err |-> SocketClosedError]

(* C5 as stated: once an endpoint is closed it hands no frame of any kind to
   its transport, and a frame it receives afterwards leaves its stub map,
   proxy registry and pending-call table unchanged. *)
C5_SilentAfterClose ==
    [][\A e \in E : ended[e] =>
          /\ log'[e] = log[e]
          /\ (wire[Peer(e)] # <<>> /\ wire'[Peer(e)] = Tail(wire[Peer(e)])) =>
                /\ knownStubIds'[e] = knownStubIds[e]
                /\ knownProxies'[e] = knownProxies[e]
                /\ pendingCalls'[e] = pendingCalls[e]]_vars

(* C6 as stated: for every oid in an endpoint's proxy registry the peer holds
   a live stub with that oid, unless the proxy holder has sent a free for it. *)
C6_ProxyHasLiveStub ==
    \A e \in E : \A oid \in DOMAIN knownProxies[e] :
        oid \in DOMAIN knownStubIds[Peer(e)] \/ FreeSent(e, oid)

(* C6 amended: for every oid in an endpoint's proxy registry the peer holds a
   live stub with that oid, unless the proxy holder has sent a free for it or
   the owner has invoked $free on the stubbed object. *)
C6_ProxyHasLiveStubUnlessFreed ==
    \A e \in E : \A oid \in DOMAIN knownProxies[e] :
        \/ oid \in DOMAIN knownStubIds[Peer(e)]
        \/ FreeSent(e, oid)
        \/ oid \in freedObjs[Peer(e)]

\* a registered proxy backed by a live stub that nobody has freed
C6_Witness ==
    \E e \in E : \E oid \in DOMAIN knownProxies[e] :
        /\ oid \in DOMAIN knownStubIds[Peer(e)]
        /\ ~FreeSent(e, oid)
        /\ oid \notin freedObjs[Peer(e)]

(* C7: no oid is at once a key of the stubs-by-oid map and of the proxy
   registry of one endpoint. *)
C7_StubsAndProxiesDisjoint ==
    \A e \in E : DOMAIN knownStubIds[e] \cap DOMAIN knownProxies[e] = {}

\* an endpoint holding at once a live stub and a registered proxy
C7_Witness ==
    \E e \in E : DOMAIN knownStubIds[e] # {} /\ DOMAIN knownProxies[e] # {}

(* C8: while the stub of an object is live, addStub(obj), called directly or
   by the marshalling of an argument, returns the oid of that stub, leaves
   the stub maps unchanged and announces nothing. *)
C8_AddStubIdempotent ==
    \A e \in E : \A o \in DOMAIN knownStubs[e] :
        knownStubs[e][o] \in DOMAIN knownStubIds[e] =>
            LET r == AddStubOp(e, LocalState(e), o)
                m == MarshalCallArgs(e, <<ObjV(o), Arr(<<ObjV(o)>>)>>)
            IN
            /\ r.val = knownStubs[e][o]
            /\ r.err = NoError
            /\ r.st = LocalState(e)
            /\ m.val = <<OidRef(knownStubs[e][o]), Arr(<<OidRef(knownStubs[e][o])>>)>>
            /\ m.st = [LocalState(e) EXCEPT !.inCall = TRUE]

\* an object passed twice in the arguments of one call, announced once
C8_Witness ==
    \E e \in E : \E i \in 1..Len(log[e]) : \E o \in DOMAIN knownStubs[e] :
        /\ knownStubs[e][o] \in DOMAIN knownStubIds[e]
        /\ log[e][i].control = "call"
        /\ Len(log[e][i].params) = 5
        /\ log[e][i].params[2] = OidRef(knownStubs[e][o])
        /\ log[e][i].params[3].elems[2] = OidRef(knownStubs[e][o])
        /\ Announcements(log[e], knownStubs[e][o]) = 1

(* C9 as stated: an object keeps its oid for ever; a step announces an oid to
   the peer (writes its new-object frame) exactly once if it installs the oid
   in the stubs-by-oid map, and not at all otherwise; a stub that was freed is
   installed again under the same oid for the same object. *)
C9_AnnouncedOncePerInstallation ==
    [][\A e \in E :
          /\ \A o \in DOMAIN knownStubs[e] :
                o \in DOMAIN knownStubs'[e] /\ knownStubs'[e][o] = knownStubs[e][o]
          /\ \A o \in DOMAIN knownStubs'[e] :
                LET oid == knownStubs'[e][o]
                    installed == oid \notin DOMAIN knownStubIds[e]
                                     /\ oid \in DOMAIN knownStubIds'[e]
                IN
                /\ oid \in DOMAIN knownStubIds'[e] => knownStubIds'[e][oid] = o
                /\ Announcements(log'[e], oid) =
                      Announcements(log[e], oid) + (IF installed THEN 1 ELSE 0)]_vars

(* C10: when the peer returns the same object from two calls, both resolve
   to the same proxy instance unless $free was invoked on a proxy of that oid;
   a call never resolves to a proxy instance on which $free was invoked, so
   after $free the next call resolves to a new proxy; and a call made on a
   registered proxy is never refused as naming an invalid object. *)
C10_ProxyReuse ==
    [][\A e \in E : \A k \in 1..Len(promise[e]) :
          /\ (promise[e][k].st = "pending" /\ promise'[e][k].st = "resolved") =>
                \A p \in ProxyValues(promise'[e][k].val) :
                    /\ p.inst \notin freedProxies[e]
                    /\ \A j \in 1..Len(promise[e]) :
                          promise[e][j].st = "resolved" =>
                              \A q \in ProxyValues(promise[e][j].val) :
                                  q.oid = p.oid =>
                                      \/ q.inst = p.inst
                                      \/ \E i \in freedProxies[e] :
                                            proxies[e][i] = p.oid /\ i <= q.inst
          /\ (promise[e][k].st = "pending" /\ promise'[e][k].st = "rejected"
                /\ promise[e][k].registered) =>
                    promise'[e][k].val.code # "ENXIO"]_vars

\* testProxyFree: two calls resolved to one proxy, that proxy freed, a third
\* call resolved to another proxy of the same oid, a read through it resolved
C10_Witness ==
    /\ Len(promise[Client]) = 4
    /\ \A k \in 1..4 : promise[Client][k].st = "resolved"
    /\ \A k \in 1..3 : promise[Client][k].method = "getObject"
                          /\ promise[Client][k].val.t = "proxy"
                          /\ promise[Client][k].val.oid = promise[Client][4].oid
    /\ promise[Client][1].val = promise[Client][2].val
    /\ promise[Client][1].val.inst \in freedProxies[Client]
    /\ promise[Client][3].val.inst # promise[Client][1].val.inst
    /\ Registered(Client, promise[Client][3].val.inst)
    /\ promise[Client][4].method = "get value"
    /\ promise[Client][4].registered
    /\ promise[Client][4].val = Prim(1)

(* C11: a new-object frame whose oid is in the proxy registry is ignored: the
   registry keeps its proxy instance and no proxy is constructed; a proxy is
   constructed only for an oid the registry does not hold. *)
C11_KnownOidIgnored ==
    [][\A e \in E :
          /\ (HandleNewObject(e) /\ Incoming(e).obj \in DOMAIN knownProxies[e]) =>
                (knownProxies'[e] = knownProxies[e] /\ proxies'[e] = proxies[e])
          /\ proxies'[e] # proxies[e] =>
                /\ Len(proxies'[e]) = Len(proxies[e]) + 1
                /\ proxies'[e][Len(proxies'[e])] \notin DOMAIN knownProxies[e]
          /\ \A oid \in DOMAIN knownProxies[e] \cap DOMAIN knownProxies'[e] :
                knownProxies'[e][oid] = knownProxies[e][oid]]_vars

\* two new-object frames of one oid delivered, no free by the holder: one proxy
C11_Witness ==
    \E e \in E : \E oid \in DOMAIN knownProxies[e] :
        /\ Announcements(log[Peer(e)], oid) = 2
        /\ wire[Peer(e)] = <<>>
        /\ freedProxies[e] = {}
        /\ Cardinality({i \in 1..Len(proxies[e]) : proxies[e][i] = oid}) = 1

\* the stubbed method of call id has been invoked on the server
Served(id) == \E inv \in serving[Server] : inv.id = id

(* C12 as stated: with FIFO delivery and no transport failure, a call whose
   target stub is live and declares the method, and whose method returns
   without throwing (getObject, get value), eventually resolves the caller's
   promise with the unmarshalled form of the value returned: the value itself,
   or a proxy of the returned object's oid. *)
C12_ServedCallResolves ==
    \A id \in 0..(MaxStuckCalls - 1) :
        Served(id)
            ~> /\ Len(promise[Client]) > id
               /\ promise[Client][id + 1].st = "resolved"
               /\ \E i \in 1..Len(log[Server]) :
                     /\ log[Server][i].control = "reply" /\ log[Server][i].id = id
                     /\ IF log[Server][i].reply.t = "oidref"
                        THEN /\ promise[Client][id + 1].val.t = "proxy"
                             /\ promise[Client][id + 1].val.oid = log[Server][i].reply.oid
                        ELSE promise[Client][id + 1].val = log[Server][i].reply

\* the server has written the reply of the client's call id
Replied(id) ==
    \E i \in 1..Len(log[Server]) :
        log[Server][i].control = "reply" /\ log[Server][i].id = id

(* C13: while the client's call is pending and the server's method awaits a
   read through the proxy it received, the client serves that read; the read
   is answered with the value, the reply of the client's call is written only
   after the read has settled and the method has completed, and every call
   of either endpoint is eventually resolved (nobody waits for ever). *)
C13_CallbackServed ==
    /\ [](\A id \in 0..(MaxCallbackCalls - 1) :
            Replied(id) =>
                /\ Len(promise[Server]) > id
                /\ promise[Server][id + 1].st = "resolved"
                /\ promise[Server][id + 1].val = Prim(1)
                /\ \A inv \in serving[Server] : inv.id # id)
    /\ \A id \in 0..(MaxCallbackCalls - 1) :
          /\ Served(id) ~> (Len(promise[Server]) > id
                               /\ promise[Server][id + 1].st = "resolved")
          /\ (Len(promise[Client]) > id)
                ~> (Len(promise[Client]) > id /\ promise[Client][id + 1].st = "resolved")

\* the client serves the read while its own call is still pending
C13_Witness ==
    /\ pendingCalls[Client] # {}
    /\ serving[Client] # {}
    /\ serving[Server] # {}
    /\ pendingCalls[Server] # {}


(* C14: whatever a stubbed method throws while it serves a call with an id, the
   callee, if its transport is open, writes one reply frame of that id that
   carries an error and stays open; and no promise of a call to the throwing
   method is ever resolved. *)
C14_ThrowAnswered ==
    [][\A e \in E :
          /\ \A inv \in serving[e] \ serving'[e] :
                (inv.method = "fail" /\ ~ended[e]) =>
                   /\ ended'[e] = ended[e]
                   /\ Len(log'[e]) = Len(log[e]) + 1
                   /\ LET f == log'[e][Len(log'[e])] IN
                         f.control = "reply" /\ f.id = inv.id /\ f.error # ""
          /\ \A k \in 1..Len(promise'[e]) :
                promise'[e][k].method = "fail" => promise'[e][k].st # "resolved"]_vars


(* C15: the error that rejects the promise of a call whose method threw is the
   thrown error: the same class among SyntaxError, TypeError and Error, the
   same message, and the same code. *)
C15_ThrownErrorPreserved ==
    \A e \in E : \A k \in 1..Len(promise[e]) :
        LET p == promise[e][k] IN
        (p.st = "rejected" /\ p.method = "fail"
            /\ p.val.message \in {t.message : t \in ThrownValues}) =>
           \E t \in ThrownValues :
               p.val.name = t.name /\ p.val.message = t.message /\ p.val.code = t.code


\* the frame is an error reply of _validateCall
InvalidMethodReply(f) ==
    /\ f.control = "reply"
    /\ f.error = "TypeError"
    /\ \E sh \in AccessShapes : f.message \in {"Invalid method " \o sh[1],
                                                "Invalid method get " \o MethodRest(sh[1])}

\* the frame is the error reply of the argument count check of `get ` and `set `
WrongArityReply(f) ==
    /\ f.control = "reply"
    /\ f.error = "TypeError"
    /\ f.message \in {"Wrong number of arguments, expected 0",
                      "Wrong number of arguments, expected 1"}

\* the frames e writes in the step
NewFrames(e) == SubSeq(log'[e], Len(log[e]) + 1, Len(log'[e]))

\* the frame is the error reply of a parameter that _unmarshalArgument refused
InvalidObjectReply(f) ==
    /\ f.control = "reply"
    /\ f.error = "TypeError"
    /\ f.message = "Invalid object"

RECURSIVE Unresolvable(_, _)
RECURSIVE Resolved(_, _)

\* a parameter of the call frame, or an element of an array among them at any
\* depth, names an oid that is neither a live stub nor a registered proxy of e
Unresolvable(e, params) ==
    \E k \in 1..Len(params) :
        \/ /\ params[k].t = "oidref"
           /\ params[k].oid \notin DOMAIN knownStubIds[e]
           /\ params[k].oid \notin DOMAIN knownProxies[e]
        \/ /\ params[k].t = "arr"
           /\ Unresolvable(e, params[k].elems)

\* what the stub of e is handed for a parameter that resolves: the object or the
\* proxy of an oid, an array of the same element by element, any other value as it is
Resolved(e, param) ==
    IF param.t = "arr"
    THEN Arr([k \in 1..Len(param.elems) |-> Resolved(e, param.elems[k])])
    ELSE IF param.t # "oidref" THEN param
    ELSE IF param.oid \in DOMAIN knownStubIds[e] THEN ObjV(knownStubIds[e][param.oid])
    ELSE ProxyV(param.oid, knownProxies[e][param.oid])

\* e takes a call frame for one of its live stubs that names a method outside the snapshot
UndeclaredCall(e) ==
    /\ HandleCall(e)
    /\ Incoming(e).obj \in DOMAIN knownStubIds[e]
    /\ Incoming(e).method \notin SeqRange(RpcMethods)

\* a call made through a call site of a proxy writes a call frame that names the
\* proxy's oid and a method of the list announced for it
ProxySitesAnnounced ==
    [][\A e \in E : callId'[e] # callId[e] =>
          \A i \in 1..Len(proxies[e]), method \in AccessNames, args \in {<<>>, <<Prim(5)>>} :
              ProxyCall(e, i, method, args) =>
                  /\ method \in SeqRange(AnnouncedMethods(e, proxies[e][i]))
                  /\ \A k \in 1..Len(NewFrames(e)) :
                        NewFrames(e)[k].control = "call" =>
                            /\ NewFrames(e)[k].obj = proxies[e][i]
                            /\ NewFrames(e)[k].method
                                  \in SeqRange(AnnouncedMethods(e, proxies[e][i]))]_vars

(* C16 as stated: a call frame naming a method outside the snapshot invokes
   nothing on the target and is answered with an invalid-method error reply;
   a proxy sends only announced method names. *)
C16_UndeclaredNeverInvoked ==
    /\ [][\A e \in E : UndeclaredCall(e) =>
              /\ serving'[e] = serving[e] /\ props'[e] = props[e]
              /\ Len(log'[e]) = Len(log[e]) + 1
              /\ log'[e][Len(log'[e])].id = Incoming(e).id
              /\ InvalidMethodReply(log'[e][Len(log'[e])])]_vars
    /\ ProxySitesAnnounced

(* C16 amended: the same, except that the parameters are unmarshalled before
   the name is looked at, so that a parameter naming an oid the receiver knows
   neither as a live stub nor as a proxy is answered with the 'Invalid object'
   TypeError whatever the name; that otherwise `set NAME` with one argument is
   served when the snapshot declares `get NAME` (the property is assigned and
   a success reply written); and that the argument count of a `get ` or `set `
   name is checked before the snapshot, so that the error reply is then the
   wrong-arity one. *)
C16_UndeclaredNeverInvokedButSet ==
    /\ [][\A e \in E : UndeclaredCall(e) =>
              LET msg == Incoming(e)
                  f == log'[e][Len(log'[e])]
                  setter == /\ MethodPrefix(msg.method) = "set "
                            /\ Len(msg.params) = 1
                            /\ ("get " \o MethodRest(msg.method)) \in SeqRange(RpcMethods)
                  arity == \/ MethodPrefix(msg.method) = "get " /\ Len(msg.params) # 0
                           \/ MethodPrefix(msg.method) = "set " /\ Len(msg.params) # 1
              IN
              /\ serving'[e] = serving[e]
              /\ Len(log'[e]) = Len(log[e]) + 1
              /\ f.control = "reply" /\ f.id = msg.id
              /\ IF Unresolvable(e, msg.params)
                 THEN props'[e] = props[e] /\ InvalidObjectReply(f)
                 ELSE IF setter
                 THEN /\ f.error = ""
                      /\ props'[e] = [props[e] EXCEPT ![knownStubIds[e][msg.obj]] =
                                          Resolved(e, msg.params[1])]
                 ELSE /\ props'[e] = props[e]
                      /\ IF arity THEN WrongArityReply(f) ELSE InvalidMethodReply(f)]_vars
    /\ ProxySitesAnnounced

\* the undeclared method was refused as an invalid method, and an undeclared call
\* with a proxy parameter that the callee could not resolve was refused for that
C16_Witness ==
    /\ \E k \in 1..Len(log[Server]) :
          InvalidMethodReply(log[Server][k]) /\ log[Server][k].message = "Invalid method hidden"
    /\ \E k \in 1..Len(promise[Client]) :
          /\ promise[Client][k].method = "hidden" /\ promise[Client][k].args = <<>>
          /\ promise[Client][k].st = "rejected"
    /\ \E k \in 1..Len(promise[Client]) :
          /\ promise[Client][k].method \notin SeqRange(RpcMethods)
          /\ promise[Client][k].args # <<>>
          /\ promise[Client][k].st = "rejected"
          /\ promise[Client][k].val = TypeError("Invalid object")


\* the promise of e's call k was rejected by _failAllCalls
FailedByError(e, k) ==
    /\ promise[e][k].st = "rejected"
    /\ promise[e][k].val = SocketClosedError
    /\ (k - 1) \notin pendingCalls[e]

(* C17: on a transport error every pending call is rejected with the
   closed-endpoint error and the pending table is left empty; a reply frame
   that names no pending call is dropped, and a promise rejected by the error
   is never settled again. *)
C17_ErrorFailsPendingCalls ==
    [][\A e \in E :
          /\ SocketError(e) =>
                /\ pendingCalls'[e] = {}
                /\ \A id \in pendingCalls[e] :
                      /\ promise'[e][id + 1].st = "rejected"
                      /\ promise'[e][id + 1].val = SocketClosedError
                      /\ promise'[e][id + 1].n = 1
                /\ \A k \in 1..Len(promise[e]) :
                      (k - 1) \notin pendingCalls[e] => promise'[e][k] = promise[e][k]
          /\ (HandleReply(e) /\ Incoming(e).id \notin pendingCalls[e]) =>
                (promise'[e] = promise[e] /\ pendingCalls'[e] = pendingCalls[e])
          /\ \A k \in 1..Len(promise[e]) :
                FailedByError(e, k) =>
                   /\ promise'[e][k].st = promise[e][k].st
                   /\ promise'[e][k].val = promise[e][k].val
                   /\ promise'[e][k].n = promise[e][k].n
                   /\ (k - 1) \notin pendingCalls'[e]]_vars

\* a call failed by a transport error whose reply arrived afterwards and was dropped
C17_Witness ==
    \E e \in E : \E k \in 1..Len(promise[e]) :
        /\ FailedByError(e, k)
        /\ promise[e][k].n = 1
        /\ ~ended[e] /\ ~ended[Peer(e)]
        /\ \E j \in 1..Len(log[Peer(e)]) :
              /\ log[Peer(e)][j].control = "reply"
              /\ log[Peer(e)][j].id = k - 1
        /\ wire[Peer(e)] = <<>>


(* C18: $free on a proxy removes its oid from the proxy registry and writes
   exactly one free frame naming that oid; on a closed endpoint the oid is
   removed all the same and nothing is written; the two stub maps and the
   pending-call table are as before. *)
C18_ProxyFree ==
    [][\A e \in E : \A i \in 1..Len(proxies[e]) :
          FreeProxy(e, i) =>
             LET id == proxies[e][i] IN
             /\ knownProxies'[e] = MapRemove(knownProxies[e], id)
             /\ id \notin DOMAIN knownProxies'[e]
             /\ log'[e] = IF ended[e] THEN log[e] ELSE Append(log[e], FreeMessage(id))
             /\ knownStubs'[e] = knownStubs[e]
             /\ knownStubIds'[e] = knownStubIds[e]
             /\ pendingCalls'[e] = pendingCalls[e]]_vars

\* a proxy freed on a closed endpoint: out of the registry, and no free frame written
C18_Witness ==
    \E e \in E : \E i \in freedProxies[e] :
        /\ ended[e]
        /\ proxies[e][i] \notin DOMAIN knownProxies[e]
        /\ \A k \in 1..Len(log[e]) : log[e][k].control # "free"


(* C19: $free on a stubbed object removes its oid from the stubs-by-oid map
   and nothing else: no frame is written, the object-to-stub association, the
   proxy registry and the pending-call table are as before; and the $free the
   object had before it was stubbed, if any, is run. *)
C19_StubFree ==
    [][\A e \in E : \A o \in Objects(e) :
          ObjFree(e, o) =>
             /\ knownStubIds'[e] = MapRemove(knownStubIds[e], knownStubs[e][o])
             /\ log' = log /\ wire' = wire
             /\ knownStubs'[e] = knownStubs[e]
             /\ knownProxies'[e] = knownProxies[e]
             /\ pendingCalls'[e] = pendingCalls[e]
             /\ prevFreed'[e] = IF HadFree(o) THEN prevFreed[e] \cup {o} ELSE prevFreed[e]]_vars

\* an object with a $free of its own was stubbed and freed: its oid is out of the
\* stubs-by-oid map, its stub is kept, its own $free has run and no free frame exists
C19_Witness ==
    \E e \in E : \E o \in DOMAIN knownStubs[e] :
        /\ HadFree(o) /\ o \in prevFreed[e]
        /\ knownStubs[e][o] \notin DOMAIN knownStubIds[e]
        /\ \A k \in 1..Len(log[e]) : log[e][k].control # "free"


\* call(oid, method, args) at e would get past the re-entrancy and closure tests
\* and fail in marshalling its arguments
MarshalFails(e, args) ==
    ~inCall[e] /\ ~ended[e] /\ MarshalCallArgs(e, args).err # NoError

(* C20: when marshalling an argument of an outbound call fails, the error is
   thrown to the caller synchronously, the call id is not advanced, the
   pending table gets no entry and no promise is made, and no frame is
   written. *)
C20_MarshalFailureLeavesNoCall ==
    [][\A e \in E : \A oid \in TargetOids(e), c \in CallShapes(e, SpecObjects(e)) :
          (MarshalFails(e, c[2]) /\ Call(e, oid, c[1], c[2])) =>
             /\ CallOutcome(e, c[2]) = [kind |-> "throw", err |-> MarshalCallArgs(e, c[2]).err]
             /\ callId'[e] = callId[e]
             /\ pendingCalls'[e] = pendingCalls[e]
             /\ promise'[e] = promise[e]
             /\ log'[e] = log[e] /\ wire'[e] = wire[e]]_vars

\* a call whose proxy argument was no longer registered has thrown: no call id
\* was taken, nothing is pending and no call frame was written
C20_Witness ==
    \E e \in E :
        /\ inCall[e] /\ ~ended[e]
        /\ callId[e] = 0 /\ pendingCalls[e] = {} /\ promise[e] = <<>>
        /\ freedProxies[e] # {}
        /\ \A k \in 1..Len(log[e]) : log[e][k].control # "call"


(* C21: call() invoked while inCall is true throws the re-entrancy type error
   synchronously; it writes no frame and leaves the call id counter, the
   pending-call table and the deferred announcements as they were. *)
C21_ReentrantCallThrows ==
    /\ [](\A e \in E : inCall[e] =>
              \A args \in ArgLists(e, SpecObjects(e)) :
                  CallOutcome(e, args) =
                      [kind |-> "throw", err |-> TypeError("Re-entrant calls are not supported")])
    /\ [][\A e \in E : \A oid \in TargetOids(e), c \in CallShapes(e, SpecObjects(e)) :
              (inCall[e] /\ Call(e, oid, c[1], c[2])) =>
                 /\ callId' = callId /\ pendingCalls' = pendingCalls
                 /\ newObjects' = newObjects /\ promise' = promise
                 /\ log' = log /\ wire' = wire]_vars

\* an endpoint with inCall true, announcements deferred, and a stub to call
C21_Witness ==
    \E e \in E : inCall[e] /\ ~ended[e] /\ newObjects[e] # <<>> /\ TargetOids(e) # {}


(* C22: the oids of an endpoint's stubs come from its counter, which never
   decreases: distinct exported objects have distinct oids, each below the
   counter, and an object keeps the oid it was given for ever, so that no oid
   passes to another object, freed or not. *)
C22_OidsNeverReused ==
    /\ [](\A e \in E :
              /\ \A o1, o2 \in DOMAIN knownStubs[e] :
                    o1 # o2 => knownStubs[e][o1] # knownStubs[e][o2]
              /\ \A o \in DOMAIN knownStubs[e] :
                    \E c \in 0..(stubCnt[e] - 1) : knownStubs[e][o] = MkOid(e, c)
              /\ \A oid \in DOMAIN knownStubIds[e] :
                    /\ knownStubIds[e][oid] \in DOMAIN knownStubs[e]
                    /\ knownStubs[e][knownStubIds[e][oid]] = oid)
    /\ [][\A e \in E :
              /\ stubCnt'[e] >= stubCnt[e]
              /\ \A o \in DOMAIN knownStubs[e] :
                    o \in DOMAIN knownStubs'[e] /\ knownStubs'[e][o] = knownStubs[e][o]]_vars

\* two objects exported by one endpoint; the oid of the first has been freed, the
\* second holds the next number of the counter
C22_Witness ==
    \E o1, o2 \in DOMAIN knownStubs[Server] :
        /\ o1 # o2
        /\ stubCnt[Server] = 2
        /\ knownStubs[Server][o1] = MkOid(Server, 0)
        /\ knownStubs[Server][o1] \notin DOMAIN knownStubIds[Server]
        /\ knownStubs[Server][o2] = MkOid(Server, 1)
        /\ knownStubs[Server][o2] \in DOMAIN knownStubIds[Server]

(* C23: between the operations of an endpoint, when no call() is executing,
   inCall is false, also after a call() that threw while marshalling; hence no
   later call() is refused as re-entrant. *)
C23_InCallOnlyWhileMarshalling ==
    \A e \in E :
        /\ ~inCall[e]
        /\ \A args \in ArgLists(e, SpecObjects(e)) :
              CallOutcome(e, args).err # TypeError("Re-entrant calls are not supported")



(* C24: every oid in the value of a reply frame that names a stub of the
   replying endpoint was announced by an earlier new-object frame of that
   endpoint; and when the stub was installed by the marshalling of the reply
   itself, that frame is written in the same step, before the reply. *)
C24_ReplyOidsAnnounced ==
    /\ [](\A e \in E : \A i \in 1..Len(log[e]) :
              (log[e][i].control = "reply" /\ log[e][i].error = "") =>
                  \A oid \in WireOids(log[e][i].reply) \cap OwnOids(e) :
                      AnnouncedBefore(log[e], i, oid))
    /\ [][\A e \in E : \A k \in 1..Len(NewFrames(e)) :
              (NewFrames(e)[k].control = "reply" /\ NewFrames(e)[k].error = "") =>
                  \A oid \in WireOids(NewFrames(e)[k].reply) \ DOMAIN knownStubIds[e] :
                      oid \in DOMAIN knownStubIds'[e] => AnnouncedBefore(NewFrames(e), k, oid)]_vars


\* the objects with $rpcMethods inside a value, in the order _marshalArgument meets them
RECURSIVE StubbablesOf(_)
StubbablesOf(v) ==
    CASE v.t = "obj" /\ ~IsPlainObject(v.o) -> <<v.o>>
      [] v.t = "arr" /\ v.elems = <<>> -> <<>>
      [] v.t = "arr" /\ v.elems # <<>> ->
            StubbablesOf(Head(v.elems)) \o StubbablesOf(Arr(Tail(v.elems)))
      [] OTHER -> <<>>

\* the place of the first occurrence of x in the sequence s
FirstAt(s, x) == CHOOSE k \in 1..Len(s) : s[k] = x /\ \A j \in 1..(k - 1) : s[j] # x

\* the oids whose stub the step installs at e
Installed(e) == DOMAIN knownStubIds'[e] \ DOMAIN knownStubIds[e]

(* C25: a call() that succeeds writes, in one go, the new-object frames of
   exactly the stubs that marshalling installed, once each and in the order in
   which marshalling met their objects, then the call frame, and leaves the
   deferred queue empty; a call() whose marshalling throws writes nothing and
   leaves the announcements of the stubs it installed in the deferred queue. *)
C25_AnnouncementsDeferred ==
    [][\A e \in E :
          /\ callId'[e] = callId[e] + 1 =>
                LET F == NewFrames(e)
                    n == Len(F)
                    order == StubbablesOf(Arr(promise'[e][callId'[e]].args))
                IN
                /\ n >= 1 /\ F[n].control = "call" /\ F[n].id = callId[e]
                /\ \A k \in 1..(n - 1) : F[k].control = "new-object"
                /\ {F[k].obj : k \in 1..(n - 1)} = Installed(e)
                /\ Cardinality(Installed(e)) = n - 1
                /\ \A j, k \in 1..(n - 1) :
                      j < k => FirstAt(order, knownStubIds'[e][F[j].obj])
                                 < FirstAt(order, knownStubIds'[e][F[k].obj])
                /\ newObjects'[e] = <<>>
          /\ (inCall'[e] /\ ~inCall[e]) =>
                /\ NewFrames(e) = <<>>
                /\ Len(newObjects'[e]) = Len(newObjects[e]) + Cardinality(Installed(e))
                /\ \A oid \in Installed(e) :
                      \E k \in 1..Len(newObjects'[e]) :
                          newObjects'[e][k] = NewObjectMessage(oid)]_vars

\* a call frame preceded by the announcements of two stubs, the older oid second:
\* a freed stub re-installed after a new one was created
C25_Witness ==
    \E i \in 3..Len(log[Client]) :
        /\ log[Client][i].control = "call"
        /\ log[Client][i - 1].control = "new-object"
        /\ log[Client][i - 2].control = "new-object"
        /\ log[Client][i - 1].obj = MkOid(Client, 0)
        /\ log[Client][i - 2].obj = MkOid(Client, 1)
        /\ newObjects[Client] = <<>>


(* C26: a reply frame whose id is not in the pending-call table is dropped and
   changes nothing; a reply whose id is in the table removes that entry alone
   and settles its promise; hence a promise is settled at most once, whatever
   repeated replies or transport errors follow. *)
C26_ReplySettlesOnce ==
    /\ [](\A e \in E : \A k \in 1..Len(promise[e]) :
              /\ promise[e][k].n <= 1
              /\ promise[e][k].st # "pending" => (k - 1) \notin pendingCalls[e])
    /\ [][\A e \in E :
              /\ (HandleReply(e) /\ Incoming(e).id \notin pendingCalls[e]) =>
                    /\ promise'[e] = promise[e] /\ pendingCalls'[e] = pendingCalls[e]
                    /\ knownStubs'[e] = knownStubs[e] /\ knownStubIds'[e] = knownStubIds[e]
                    /\ knownProxies'[e] = knownProxies[e] /\ callId'[e] = callId[e]
                    /\ log'[e] = log[e]
              /\ (HandleReply(e) /\ Incoming(e).id \in pendingCalls[e]) =>
                    /\ pendingCalls'[e] = pendingCalls[e] \ {Incoming(e).id}
                    /\ promise'[e][Incoming(e).id + 1].st # "pending"
                    /\ promise'[e][Incoming(e).id + 1].n = 1
                    /\ \A k \in 1..Len(promise[e]) :
                          k # Incoming(e).id + 1 => promise'[e][k] = promise[e][k]
              /\ \A k \in 1..Len(promise[e]) :
                    promise[e][k].st # "pending" =>
                       /\ promise'[e][k].st = promise[e][k].st
                       /\ promise'[e][k].val = promise[e][k].val]_vars

\* a settled promise whose reply was delivered a second time, and dropped
C26_Witness ==
    \E k \in 1..Len(promise[Client]) :
        /\ promise[Client][k].st = "resolved"
        /\ promise[Client][k].n = 1
        /\ Cardinality({j \in 1..Len(log[Server]) :
                log[Server][j].control = "reply" /\ log[Server][j].id = k - 1}) = 2
        /\ wire[Server] = <<>>


\* what a settled promise of a call of the given method can hold when the call was
\* served by the server's root stub
OwnOutcome(p) ==
    \/ p.st = "rejected" /\ p.val = SocketClosedError
    \/ CASE p.method = "get value" -> p.st = "resolved" /\ p.val = Prim(1)
          [] p.method = "getObject" ->
                /\ p.st = "resolved" /\ p.val.t = "proxy"
                /\ \E o \in SomeObjects(Server, 1) : p.val.oid = knownStubs[Server][o]
          [] p.method = "fail" ->
                /\ p.st = "rejected"
                /\ \E t \in ThrownValues \ {ThrownUndefined} :
                      p.val = ReplyError(ErrorReplyMessage(0, t))
          [] p.method = "hidden" ->
                p.st = "rejected" /\ p.val = TypeError("Invalid method hidden")
          [] OTHER -> FALSE

(* C27: with several calls pending at once and their replies arriving in any
   order, every promise is settled by a reply frame that carries the id of its
   own call and holds the outcome of its own request. *)
C27_RepliesMatchedById ==
    \A k \in 1..Len(promise[Client]) :
        promise[Client][k].st # "pending" =>
            /\ OwnOutcome(promise[Client][k])
            /\ promise[Client][k].val # SocketClosedError =>
                  \E j \in 1..Len(log[Server]) :
                      /\ log[Server][j].control = "reply"
                      /\ log[Server][j].id = k - 1
                      /\ (log[Server][j].error # "") = (promise[Client][k].st = "rejected")

\* two calls of different methods, answered in the opposite order, both settled
C27_Witness ==
    /\ Len(promise[Client]) = 2
    /\ promise[Client][1].method # promise[Client][2].method
    /\ promise[Client][1].st = "resolved" /\ promise[Client][2].st = "rejected"
    /\ promise[Client][2].val # SocketClosedError
    /\ \E i, j \in 1..Len(log[Server]) :
          /\ i < j
          /\ log[Server][i].control = "reply" /\ log[Server][i].id = 1
          /\ log[Server][j].control = "reply" /\ log[Server][j].id = 0


(* C28: a call frame whose target oid is not a live stub of the receiver
   invokes nothing, is answered with one error reply of the call's id carrying
   code ENXIO, and leaves the receiver open; the reply rejects the caller's
   promise with an error of that code. *)
C28_UnknownTargetRefused ==
    [][\A e \in E :
          /\ (HandleCall(e) /\ Incoming(e).obj \notin DOMAIN knownStubIds[e]) =>
                /\ serving'[e] = serving[e] /\ props'[e] = props[e]
                /\ ended'[e] = ended[e] /\ ~ended'[e]
                /\ Len(NewFrames(e)) = 1
                /\ NewFrames(e)[1].control = "reply"
                /\ NewFrames(e)[1].id = Incoming(e).id
                /\ NewFrames(e)[1].error # ""
                /\ NewFrames(e)[1].code = "ENXIO"
          /\ (HandleReply(e) /\ Incoming(e).id \in pendingCalls[e]
                /\ Incoming(e).error # "" /\ Incoming(e).code = "ENXIO") =>
                /\ promise'[e][Incoming(e).id + 1].st = "rejected"
                /\ promise'[e][Incoming(e).id + 1].val.code = "ENXIO"
                /\ promise'[e][Incoming(e).id + 1].val.message = Incoming(e).error]_vars

\* two calls rejected with ENXIO: one to an oid never exported, one to an oid
\* whose free frame reached the owner before the call
C28_Witness ==
    \E j, k \in 1..Len(promise[Client]) :
        /\ promise[Client][j].oid = NeverExported
        /\ promise[Client][j].st = "rejected" /\ promise[Client][j].val.code = "ENXIO"
        /\ FreeSent(Client, promise[Client][k].oid)
        /\ promise[Client][k].st = "rejected" /\ promise[Client][k].val.code = "ENXIO"
        /\ ~ended[Server] /\ serving[Server] = {}


(* C29: unmarshalling an oid marker yields the owning object when the oid is
   in the stubs-by-oid map, else the proxy when it is in the proxy registry,
   else fails with the invalid-object type error; when a reply fails to
   unmarshal, its call leaves the pending table and its promise is rejected
   with that error. *)
C29_UnmarshalResolvesOid ==
    /\ [](\A e \in E : \A oid \in SomeOids :
              LET r == UnmarshalArgument(knownStubIds[e], knownProxies[e], OidRef(oid)) IN
              IF oid \in DOMAIN knownStubIds[e]
              THEN r.err = NoError /\ r.val = ObjV(knownStubIds[e][oid])
              ELSE IF oid \in DOMAIN knownProxies[e]
              THEN r.err = NoError /\ r.val = ProxyV(oid, knownProxies[e][oid])
              ELSE r.err = TypeError("Invalid object"))
    /\ [][\A e \in E :
              (/\ HandleReply(e)
               /\ Incoming(e).id \in pendingCalls[e]
               /\ Incoming(e).error = ""
               /\ \E oid \in WireOids(Incoming(e).reply) :
                     oid \notin DOMAIN knownStubIds[e] \cup DOMAIN knownProxies[e]) =>
                 /\ pendingCalls'[e] = pendingCalls[e] \ {Incoming(e).id}
                 /\ promise'[e][Incoming(e).id + 1].st = "rejected"
                 /\ promise'[e][Incoming(e).id + 1].val = TypeError("Invalid object")]_vars

\* a reply named an oid the caller holds neither as stub nor as proxy: rejected
C29_Witness ==
    \E k \in 1..Len(promise[Client]) :
        /\ promise[Client][k].st = "rejected"
        /\ promise[Client][k].val = TypeError("Invalid object")
        /\ (k - 1) \notin pendingCalls[Client]
        /\ \E j \in 1..Len(log[Server]) :
              /\ log[Server][j].control = "reply" /\ log[Server][j].id = k - 1
              /\ log[Server][j].error = ""
              /\ WireOids(log[Server][j].reply) # {}


\* a proxy made by a third socket: its oid carries that socket's prefix
ForeignProxy == ProxyV(MkOid(3, 0), 1)

\* the objects carrying an oid that the application of e can hold
OidBearers(e) == ProxyHandles(e) \cup {ForeignProxy}

(* C30: marshalling an object that carries an oid which is not in the
   endpoint's proxy registry fails with the invalid-object error, code ENXIO,
   naming that oid, and changes neither stub map nor the stub counter; the
   same when the object sits inside an array. *)
C30_UnknownProxyNotMarshalled ==
    \A e \in E : \A p \in OidBearers(e) :
        p.oid \notin DOMAIN knownProxies[e] =>
            \A arg \in {p, Arr(<<Prim(7), p>>)} :
                LET r == MarshalArgument(e, DOMAIN knownProxies[e], LocalState(e), arg) IN
                /\ r.err = InvalidObjectError(p.oid)
                /\ r.err.code = "ENXIO" /\ r.err.objectId = p.oid
                /\ r.st = LocalState(e)

\* the application holds a proxy it has freed, and a call that passed it has thrown
C30_Witness ==
    \E i \in freedProxies[Client] :
        /\ proxies[Client][i] \notin DOMAIN knownProxies[Client]
        /\ inCall[Client]
        /\ knownStubs[Client] # EmptyMap


\* how many reply frames of the given call id the sequence of frames holds
RepliesFor(frames, id) ==
    Cardinality({k \in 1..Len(frames) : frames[k].control = "reply" /\ frames[k].id = id})

(* C31: every call frame received by an open endpoint is answered with exactly
   one reply frame of its id: at once when the call is refused or is a
   property write, and otherwise when the invoked method has completed, the
   endpoint still being open; never with two. *)
C31_ExactlyOneReply ==
    /\ [](\A e \in E : \A id \in 0..(callId[Peer(e)] - 1) : RepliesFor(log[e], id) <= 1)
    /\ [][\A e \in E :
              /\ \A inv \in serving[e] \ serving'[e] :
                    ~ended[e] => RepliesFor(NewFrames(e), inv.id) = 1
              /\ (HandleCall(e) /\ serving'[e] = serving[e]) =>
                    RepliesFor(NewFrames(e), Incoming(e).id) = 1
              /\ \A inv \in serving'[e] \ serving[e] :
                    RepliesFor(log'[e], inv.id) = 0]_vars


\* e takes a `get ` or `set ` call frame for one of its live stubs
AccessCall(e) ==
    /\ HandleCall(e)
    /\ Incoming(e).obj \in DOMAIN knownStubIds[e]
    /\ MethodPrefix(Incoming(e).method) \in {"get ", "set "}

(* C32 as stated: a `get NAME` call with parameters and a `set NAME` call with
   other than one parameter are answered with the wrong-arity error and neither
   read nor write the property; a `set NAME` call with one parameter writes the
   property when `get NAME` is in the snapshot and is refused as an invalid
   method, the property untouched, when it is not. *)
C32_AccessorArity ==
    [][\A e \in E : AccessCall(e) =>
          LET msg == Incoming(e)
              f == NewFrames(e)[1]
              o == knownStubIds[e][msg.obj]
              declared == ("get " \o MethodRest(msg.method)) \in SeqRange(RpcMethods)
          IN
          IF MethodPrefix(msg.method) = "get " /\ Len(msg.params) # 0
          THEN /\ Len(NewFrames(e)) = 1 /\ WrongArityReply(f) /\ f.id = msg.id
               /\ f.message = "Wrong number of arguments, expected 0"
               /\ serving'[e] = serving[e] /\ props'[e] = props[e]
          ELSE IF MethodPrefix(msg.method) = "set " /\ Len(msg.params) # 1
          THEN /\ Len(NewFrames(e)) = 1 /\ WrongArityReply(f) /\ f.id = msg.id
               /\ f.message = "Wrong number of arguments, expected 1"
               /\ serving'[e] = serving[e] /\ props'[e] = props[e]
          ELSE IF MethodPrefix(msg.method) = "set "
          THEN IF declared
               THEN /\ Len(NewFrames(e)) = 1 /\ f.control = "reply" /\ f.error = ""
                    /\ props'[e] = [props[e] EXCEPT ![o] = Resolved(e, msg.params[1])]
               ELSE /\ props'[e] = props[e]
                    /\ Len(NewFrames(e)) = 1 /\ InvalidMethodReply(f)
          ELSE props'[e] = props[e]]_vars

(* C32 amended: the parameters are unmarshalled before the name is looked at: a
   `get NAME` or `set NAME` call with a parameter that names an oid the
   receiver knows neither as a live stub nor as a proxy is answered with the
   'Invalid object' TypeError whatever the number of its parameters, and
   neither reads nor writes the property. Otherwise the statement holds: wrong
   parameter counts are answered with the wrong-arity error, the property
   neither read nor written, and a `set NAME` call with one parameter writes
   the unmarshalled parameter when `get NAME` is in the snapshot and is
   refused as an invalid method when it is not. *)
C32_AccessorArityAfterUnmarshal ==
    [][\A e \in E : AccessCall(e) =>
          LET msg == Incoming(e)
              f == NewFrames(e)[1]
              o == knownStubIds[e][msg.obj]
              declared == ("get " \o MethodRest(msg.method)) \in SeqRange(RpcMethods)
          IN
          IF Unresolvable(e, msg.params)
          THEN /\ Len(NewFrames(e)) = 1 /\ InvalidObjectReply(f) /\ f.id = msg.id
               /\ serving'[e] = serving[e] /\ props'[e] = props[e]
          ELSE IF MethodPrefix(msg.method) = "get " /\ Len(msg.params) # 0
          THEN /\ Len(NewFrames(e)) = 1 /\ WrongArityReply(f) /\ f.id = msg.id
               /\ f.message = "Wrong number of arguments, expected 0"
               /\ serving'[e] = serving[e] /\ props'[e] = props[e]
          ELSE IF MethodPrefix(msg.method) = "set " /\ Len(msg.params) # 1
          THEN /\ Len(NewFrames(e)) = 1 /\ WrongArityReply(f) /\ f.id = msg.id
               /\ f.message = "Wrong number of arguments, expected 1"
               /\ serving'[e] = serving[e] /\ props'[e] = props[e]
          ELSE IF MethodPrefix(msg.method) = "set "
          THEN IF declared
               THEN /\ Len(NewFrames(e)) = 1 /\ f.control = "reply" /\ f.error = ""
                    /\ f.id = msg.id /\ serving'[e] = serving[e]
                    /\ props'[e] = [props[e] EXCEPT ![o] = Resolved(e, msg.params[1])]
               ELSE /\ props'[e] = props[e] /\ serving'[e] = serving[e]
                    /\ Len(NewFrames(e)) = 1 /\ InvalidMethodReply(f) /\ f.id = msg.id
          ELSE props'[e] = props[e]]_vars

\* an accessor call was refused for its argument count, and an accessor call with
\* a proxy parameter that the callee could not resolve was refused for that
C32_Witness ==
    /\ \E k \in 1..Len(log[Server]) : WrongArityReply(log[Server][k])
    /\ \E k \in 1..Len(promise[Client]) :
          /\ promise[Client][k].st = "rejected"
          /\ promise[Client][k].val.message \in {"Wrong number of arguments, expected 0",
                                                 "Wrong number of arguments, expected 1"}
    /\ \E k \in 1..Len(promise[Client]) :
          /\ MethodPrefix(promise[Client][k].method) \in {"get ", "set "}
          /\ promise[Client][k].args # <<>>
          /\ promise[Client][k].st = "rejected"
          /\ promise[Client][k].val = TypeError("Invalid object")


(* C33: a free frame for a live stub of the receiver removes it from the
   stubs-by-oid map and leaves the proxy registry alone; for any other oid it
   removes the oid from the proxy registry when it is there and does nothing
   when it is not; no frame is written, and the object-to-stub map and the
   pending-call table are as before. *)
C33_FreeFrameEffect ==
    [][\A e \in E : HandleFree(e) =>
          LET id == Incoming(e).id IN
          /\ IF id \in DOMAIN knownStubIds[e]
             THEN /\ knownStubIds'[e] = MapRemove(knownStubIds[e], id)
                  /\ knownProxies'[e] = knownProxies[e]
             ELSE /\ knownStubIds'[e] = knownStubIds[e]
                  /\ IF id \in DOMAIN knownProxies[e]
                     THEN knownProxies'[e] = MapRemove(knownProxies[e], id)
                     ELSE knownProxies'[e] = knownProxies[e]
          /\ log'[e] = log[e] /\ wire'[e] = wire[e]
          /\ knownStubs'[e] = knownStubs[e]
          /\ pendingCalls'[e] = pendingCalls[e]]_vars

\* an endpoint lost a proxy to a free frame it received, not to a $free of its own,
\* and its own stub is live
C33_Witness ==
    \E e \in E :
        /\ proxies[e] # <<>> /\ knownProxies[e] = EmptyMap
        /\ nFrees[e] = 0
        /\ knownStubIds[e] # EmptyMap
        /\ wire[Peer(e)] = <<>>


\* how many free frames of e are on their way to its peer
FreesInFlight(e) == Cardinality({k \in 1..Len(wire[e]) : wire[e][k].control = "free"})

(* C34: $free on a handle that was freed before changes no registry: the
   holder's proxy registry is as it was, and the free frame of a second $free,
   if one is written, removes no stub at the peer.  When $free ran twice, on
   one handle, over a stream that carried both frames, and one of the two is
   still on its way, that one is the frame of the second $free. *)
C34_SecondFreeIdempotent ==
    [][\A e \in E :
          /\ \A i \in freedProxies[e] :
                FreeProxy(e, i) => knownProxies'[e] = knownProxies[e]
          /\ (/\ HandleFree(Peer(e))
              /\ nFrees[e] = 2 /\ Cardinality(freedProxies[e]) = 1
              /\ socket[e] = "open" /\ FreesInFlight(e) = 1)
             => knownStubIds'[Peer(e)] = knownStubIds[Peer(e)]]_vars


\* no frame is in flight, no method is being served and no transport has failed
Quiescent == \A e \in E : wire[e] = <<>> /\ serving[e] = {} /\ ~ended[e]

\* no stubbed object had its $free called, and no proxy handle was freed twice
FreesWellBehaved ==
    \A e \in E : freedObjs[e] = {} /\ nFrees[e] = Cardinality(freedProxies[e])

(* C35: when the application has called $free on no stubbed object and on each
   proxy handle at most once, then in every state with no frame in flight and
   no transport failure, every oid of an endpoint's proxy registry is a live
   stub of its peer. *)
C35_QuiescentConsistency ==
    (FreesWellBehaved /\ \A e \in E : wire[e] = <<>> /\ ~ended[e]) =>
        \A e \in E : DOMAIN knownProxies[e] \subseteq DOMAIN knownStubIds[Peer(e)]

\* quiescent, two handles freed once each, and a third handle registered for the
\* stub its owner installed again
C35_Witness ==
    /\ Quiescent /\ FreesWellBehaved
    /\ \E e \in E :
          /\ nFrees[e] = 2
          /\ \E i \in 1..Len(proxies[e]) :
                /\ i \notin freedProxies[e]
                /\ Registered(e, i)
                /\ proxies[e][i] \in DOMAIN knownStubIds[Peer(e)]
                /\ \E j \in freedProxies[e] : proxies[e][j] = proxies[e][i]


\* the ids of the call frames e has written, in order
CallIdsWritten(e) ==
    LET calls == {k \in 1..Len(log[e]) : log[e][k].control = "call"} IN
    [k \in calls |-> log[e][k].id]

(* C36: the callId counter of an endpoint never decreases; every key of its
   pending-call table is smaller than the counter; a call that is allocated an
   id takes the counter's value and moves the counter past it, so that no two
   call frames of one endpoint carry the same id. *)
C36_CallIdsUnique ==
    /\ [](\A e \in E :
            /\ \A id \in pendingCalls[e] : id < callId[e]
            /\ \A j, k \in DOMAIN CallIdsWritten(e) :
                  j # k => CallIdsWritten(e)[j] # CallIdsWritten(e)[k])
    /\ [][\A e \in E :
            /\ callId'[e] >= callId[e]
            /\ pendingCalls'[e] \ pendingCalls[e] \subseteq {callId[e]}
            /\ pendingCalls'[e] \ pendingCalls[e] # {} => callId'[e] = callId[e] + 1]_vars

\* the second call of an endpoint is pending under id 1 after its first was answered
C36_Witness ==
    \E e \in E :
        /\ callId[e] = 2 /\ pendingCalls[e] = {1}
        /\ promise[e][1].st # "pending"
        /\ \E k \in 1..Len(log[e]) : log[e][k].control = "call" /\ log[e][k].id = 1

====
